---- MODULE Spec2Model ----
(***************************************************************************)
(* Order service of the three-service e-commerce backend: the order        *)
(* handler (CreateOrder, UpdateOrderStatus), the order models, the         *)
(* in-memory order repository and the validation client that calls the    *)
(* user service and the product service over HTTP.                         *)
(*                                                                         *)
(* Spec      requests handled one at a time, every handler one action.     *)
(* SpecConc  concurrent CreateOrder requests, one step per outbound call   *)
(*           and per repository lock operation.                            *)
(***************************************************************************)
EXTENDS Integers, Sequences, FiniteSets, TLC

(***************************************************************************)
(* Bounds of the model.                                                    *)
(***************************************************************************)
MantBits == 3
MaxItems == 2
MaxQty == 2
MaxStock == 2
MaxTime == 1
MaxOrders == 2

(***************************************************************************)
(* Values.                                                                 *)
(***************************************************************************)
Nil == "nil"
EmptyString == ""

\* uuid.New().String() values
OrderIds == 1..MaxOrders

UserIds == {"u1"}

\* the product catalogue's ids, and an id no product has
CatalogueIds == {"p1", "p2"}
UnknownProductIds == {"p9"}
Quantities == 0..MaxQty
Stocks == 0..MaxStock
Times == 0..MaxTime

OrderStatusPending == "pending"
OrderStatusConfirmed == "confirmed"
OrderStatusShipped == "shipped"
OrderStatusDelivered == "delivered"
OrderStatusCancelled == "cancelled"

\* HTTP status codes
StatusOK == 200
StatusCreated == 201
StatusBadRequest == 400
StatusUnauthorized == 401
StatusNotFound == 404
StatusConflict == 409
StatusInternalServerError == 500

(***************************************************************************)
(* float64 arithmetic.  A float64 is written as an integer number of a     *)
(* fixed power-of-two quantum; every operation rounds its exact result to  *)
(* MantBits significant bits, ties to even (IEEE 754 round-to-nearest),    *)
(* where the machine keeps 53.                                             *)
(***************************************************************************)
RECURSIVE BitLen(_)
BitLen(n) ==
    IF n = 0 THEN 0 ELSE 1 + BitLen(n \div 2)

RoundNat(n) ==
    LET s == BitLen(n) - MantBits IN
    IF s <= 0 THEN n
    ELSE LET q == n \div (2^s)
             r == n % (2^s)
             half == 2^(s - 1)
             up == r > half \/ (r = half /\ q % 2 = 1)
         IN (IF up THEN q + 1 ELSE q) * (2^s)

F64Round(x) ==
    IF x < 0 THEN 0 - RoundNat(0 - x) ELSE RoundNat(x)

\* float64(quantity)
F64FromInt(i) ==
    F64Round(i)

\* price * float64(quantity): the multiplier is a pure number
F64Mul(a, b) ==
    F64Round(a * b)

F64Add(a, b) ==
    F64Round(a + b)

(***************************************************************************)
(* models: Order, OrderItem, Response.                                     *)
(***************************************************************************)
NilErr == [kind |-> "nil"]

Msg(text) ==
    [kind |-> text]

NoData == [id |-> 0]

\* Faulty variant of NewOrderItem: the subtotal is the unit price.
NewOrderItemUnitPrice(productID, productName, price, quantity) ==
    [product_id |-> productID, product_name |-> productName, price |-> price,
     quantity |-> quantity, subtotal |-> price]

NewOrderItem(productID, productName, price, quantity) ==
    [product_id |-> productID, product_name |-> productName, price |-> price,
     quantity |-> quantity, subtotal |-> F64Mul(price, F64FromInt(quantity))]

RECURSIVE SumSubtotals(_, _, _)
SumSubtotals(items, i, totalPrice) ==
    IF i > Len(items) THEN totalPrice
    ELSE SumSubtotals(items, i + 1, F64Add(totalPrice, items[i].subtotal))

\* Faulty variant of OrderTotal: the loop leaves out the last item.
OrderTotalSkipLast(items) ==
    SumSubtotals(SubSeq(items, 1, Len(items) - 1), 1, 0)

\* var totalPrice float64; for _, item := range items { totalPrice += item.Subtotal }
OrderTotal(items) ==
    SumSubtotals(items, 1, 0)

NewOrder(userID, items, id, t) ==
    [id |-> id, user_id |-> userID, items |-> items,
     total_price |-> OrderTotal(items), status |-> OrderStatusPending,
     created_at |-> t, updated_at |-> t]

\* Faulty variant of UpdateStatus: the order is rebuilt from its user and items.
UpdateStatusRebuild(o, status, t) ==
    [id |-> o.id, user_id |-> o.user_id, items |-> <<>>, total_price |-> o.total_price,
     status |-> status, created_at |-> o.created_at, updated_at |-> t]

\* Faulty variant of UpdateStatus: only the timestamp is refreshed.
UpdateStatusTimestampOnly(o, status, t) ==
    [o EXCEPT !.updated_at = t]

UpdateStatus(o, status, t) ==
    [o EXCEPT !.status = status, !.updated_at = t]

\* Faulty variant of CanBeCancelled: a shipped order can still be cancelled.
CanBeCancelledUntilDelivered(o) ==
    o.status \in {OrderStatusPending, OrderStatusConfirmed, OrderStatusShipped}

\* Faulty variant of CanBeCancelled: every order can be cancelled.
CanBeCancelledAlways(o) ==
    TRUE

CanBeCancelled(o) ==
    o.status = OrderStatusPending \/ o.status = OrderStatusConfirmed

(***************************************************************************)
(* repository: InMemoryOrderRepository.  The map is a function from the    *)
(* stored ids to the stored orders.                                        *)
(***************************************************************************)
NewInMemoryOrderRepository == << >>

\* Faulty variant of RepoCreate: the map is replaced instead of extended.
RepoCreateSingleSlot(store, order) ==
    [store |-> (order.id :> order), err |-> NilErr]

RepoCreate(store, order) ==
    [store |-> (order.id :> order) @@ store, err |-> NilErr]

\* Faulty variant of RepoGetByID: an absent id gives a zero-valued order and
\* no error.
RepoGetByIDZeroValue(store, id) ==
    IF id \notin DOMAIN store
    THEN [order |-> [id |-> 0, user_id |-> EmptyString, items |-> << >>,
                     total_price |-> 0, status |-> EmptyString,
                     created_at |-> 0, updated_at |-> 0],
          err |-> NilErr]
    ELSE [order |-> store[id], err |-> NilErr]

RepoGetByID(store, id) ==
    IF id \notin DOMAIN store
    THEN [order |-> NoData, err |-> Msg("order not found")]
    ELSE [order |-> store[id], err |-> NilErr]

\* Faulty variant of RepoGetByUserID: the user id is not compared.
RepoGetByUserIDAll(store, userID) ==
    {store[id] : id \in DOMAIN store}

RepoGetByUserID(store, userID) ==
    {store[id] : id \in {i \in DOMAIN store : store[i].user_id = userID}}

RepoUpdate(store, order) ==
    IF order.id \notin DOMAIN store
    THEN [store |-> store, err |-> Msg("order not found")]
    ELSE [store |-> [store EXCEPT ![order.id] = order], err |-> NilErr]

RepoList(store) ==
    {store[id] : id \in DOMAIN store}

RepoDelete(store, id) ==
    IF id \notin DOMAIN store
    THEN [store |-> store, err |-> Msg("order not found")]
    ELSE [store |-> [i \in DOMAIN store \ {id} |-> store[i]], err |-> NilErr]

(***************************************************************************)
(* The remote services as the client sees them.  A reply is what one HTTP  *)
(* GET comes back with: no response at all (neterr), or a status code, a   *)
(* body that decodes or not, and the decoded envelope.                     *)
(***************************************************************************)
NoProduct == [id |-> EmptyString, name |-> EmptyString, price |-> 0, stock |-> 0]

Reply(neterr, status, decodable, success, data) ==
    [neterr |-> neterr, status |-> status, decodable |-> decodable,
     success |-> success, data |-> data]

NetErr == Reply(TRUE, 0, FALSE, FALSE, NoProduct)

\* GET /users/{id}: the user service finds the user (200, success), does not
\* (404), or the call fails on the way.
UserReplies ==
    {Reply(FALSE, StatusOK, TRUE, TRUE, NoProduct),
     Reply(FALSE, StatusNotFound, TRUE, FALSE, NoProduct),
     Reply(FALSE, StatusInternalServerError, FALSE, FALSE, NoProduct),
     Reply(FALSE, StatusOK, FALSE, FALSE, NoProduct),
     Reply(FALSE, StatusOK, TRUE, FALSE, NoProduct),
     NetErr}

\* What can go wrong with one call to the product service.
Faults == {"neterr", "status500", "badbody", "flagfalse"}

\* product repository GetByID
ProductRepoGetByID(prods, id) ==
    IF id \notin DOMAIN prods
    THEN [product |-> NoProduct, err |-> Msg("product not found")]
    ELSE [product |-> prods[id], err |-> NilErr]

\* product handler GetProduct: GET /products/{id}
ProductHandlerGetProduct(prods, productID) ==
    IF productID = EmptyString
    THEN Reply(FALSE, StatusBadRequest, TRUE, FALSE, NoProduct)
    ELSE LET r == ProductRepoGetByID(prods, productID) IN
         IF r.err # NilErr
         THEN Reply(FALSE, StatusNotFound, TRUE, FALSE, NoProduct)
         ELSE Reply(FALSE, StatusOK, TRUE, TRUE, r.product)

\* The reply to GET /products/{id} under a fault, or the handler's reply.
ProductReply(prods, productID, fault) ==
    CASE fault = "neterr" -> NetErr
      [] fault = "status500" ->
            Reply(FALSE, StatusInternalServerError, FALSE, FALSE, NoProduct)
      [] fault = "badbody" -> Reply(FALSE, StatusOK, FALSE, FALSE, NoProduct)
      [] fault = "flagfalse" -> Reply(FALSE, StatusOK, TRUE, FALSE, NoProduct)
      [] OTHER -> ProductHandlerGetProduct(prods, productID)

\* product repository Update
ProductRepoUpdate(prods, product) ==
    IF product.id \notin DOMAIN prods
    THEN [store |-> prods, err |-> Msg("product not found")]
    ELSE [store |-> [prods EXCEPT ![product.id] = product], err |-> NilErr]

\* product repository Delete
ProductRepoDelete(prods, id) ==
    IF id \notin DOMAIN prods
    THEN [store |-> prods, err |-> Msg("product not found")]
    ELSE [store |-> [i \in DOMAIN prods \ {id} |-> prods[i]], err |-> NilErr]

\* product repository UpdateStock without the check of the quantity's sign
ProductRepoUpdateStockAnyQuantity(prods, id, quantity) ==
    IF id \notin DOMAIN prods
    THEN [store |-> prods, err |-> Msg("product not found")]
    ELSE [store |-> [prods EXCEPT ![id].stock = quantity], err |-> NilErr]

\* product repository UpdateStock
ProductRepoUpdateStock(prods, id, quantity) ==
    IF id \notin DOMAIN prods
    THEN [store |-> prods, err |-> Msg("product not found")]
    ELSE IF quantity < 0
    THEN [store |-> prods, err |-> Msg("stock quantity cannot be negative")]
    ELSE [store |-> [prods EXCEPT ![id].stock = quantity], err |-> NilErr]

(***************************************************************************)
(* client: ServiceClient.                                                  *)
(***************************************************************************)
\* Faulty variant of GetUser: the success flag of the envelope is not read.
GetUserIgnoreFlag(reply) ==
    IF reply.neterr THEN Msg("failed to call user service")
    ELSE IF reply.status # StatusOK THEN Msg("user service returned status")
    ELSE IF ~reply.decodable THEN Msg("failed to decode user service response")
    ELSE NilErr

GetUser(reply) ==
    IF reply.neterr THEN Msg("failed to call user service")
    ELSE IF reply.status # StatusOK THEN Msg("user service returned status")
    ELSE IF ~reply.decodable THEN Msg("failed to decode user service response")
    ELSE IF ~reply.success THEN Msg("user service error")
    ELSE NilErr

CheckUserExists(reply) ==
    GetUser(reply)

\* Faulty variant of GetProduct: the reply's data is used whatever the reply.
GetProductTrustData(reply) ==
    [product |-> reply.data, err |-> NilErr]

GetProduct(reply) ==
    IF reply.neterr
    THEN [product |-> NoProduct, err |-> Msg("failed to call product service")]
    ELSE IF reply.status # StatusOK
    THEN [product |-> NoProduct, err |-> Msg("product service returned status")]
    ELSE IF ~reply.decodable
    THEN [product |-> NoProduct, err |-> Msg("failed to decode product service response")]
    ELSE IF ~reply.success
    THEN [product |-> NoProduct, err |-> Msg("product service error")]
    ELSE [product |-> reply.data, err |-> NilErr]

\* Faulty variant of StockSufficient: the comparison is inverted.
StockSufficientInverted(product, item) ==
    ~(product.stock > item.quantity)

\* Faulty variant of StockSufficient: a quantity equal to the stock is refused.
StockSufficientStrict(product, item) ==
    ~(product.stock <= item.quantity)

\* the negation of: product.Stock < item.Quantity
StockSufficient(product, item) ==
    ~(product.stock < item.quantity)

\* The loop of ValidateOrderItems from item i on; replies[i] answers the
\* i-th GetProduct.  calls is the number of lookups made.
RECURSIVE ValidateFrom(_, _, _, _)
ValidateFrom(items, replies, i, orderItems) ==
    IF i > Len(items)
    THEN [items |-> orderItems, err |-> NilErr, calls |-> Len(items)]
    ELSE LET r == GetProduct(replies[i]) IN
         IF r.err # NilErr
         THEN [items |-> << >>, calls |-> i,
               err |-> [kind |-> "invalid product", product |-> items[i].product_id,
                        cause |-> r.err.kind]]
         ELSE IF ~StockSufficient(r.product, items[i])
         THEN [items |-> << >>, calls |-> i,
               err |-> [kind |-> "insufficient stock for product",
                        product |-> r.product.name,
                        available |-> r.product.stock,
                        requested |-> items[i].quantity]]
         ELSE ValidateFrom(items, replies, i + 1,
                  Append(orderItems,
                         NewOrderItem(r.product.id, r.product.name, r.product.price,
                                      items[i].quantity)))

ValidateOrderItems(items, replies) ==
    ValidateFrom(items, replies, 1, << >>)

(***************************************************************************)
(* State.                                                                  *)
(*   orders    the order repository's map                                  *)
(*   issued    the ids uuid.New() has returned                             *)
(*   now       the clock time.Now() reads                                  *)
(*   products  the product repository's map (product service)             *)
(*   resp      the response of the request just handled, until the caller  *)
(*             has received it: the request, the status code, the envelope *)
(*             and the replies the outbound calls came back with           *)
(*   procs     SpecConc, SpecLock, SpecWait, SpecUserRepo, SpecStatus,     *)
(*             SpecProductConc, SpecStore: each goroutine's position and   *)
(*             locals                                                      *)
(*   mutex     SpecConc, SpecLock, SpecWait, SpecUserRepo: the             *)
(*             repository's sync.RWMutex                                   *)
(*   trail     SpecScenario: for each stored order, the statuses it has    *)
(*             been stored with, oldest first; SpecUser, SpecUserRepo: the *)
(*             password each user was given; SpecProductConc: the stock    *)
(*             UpdateStock last wrote for each product                     *)
(*   objs      SpecRepo: the Order structs on the heap, by address;        *)
(*             SpecUser, SpecUserRepo: the User structs                    *)
(*   arrs      SpecRepo: the backing arrays of the Items slices, by address*)
(*   rmap      SpecRepo: the repository's map, from id to *Order;          *)
(*             SpecUser, SpecUserRepo: the user repository's map           *)
(*   held      SpecRepo: the *Order pointers the caller holds; SpecStore:  *)
(*             the locks taken and not yet released                        *)
(*   last      SpecRepo: the caller's last call or assignment, and what it *)
(*             returned; SpecUserRepo: the method body that ran last;      *)
(*             SpecProductRepo: the last call of the product repository;   *)
(*             SpecStatus: the last write of the order repository's Update *)
(***************************************************************************)
VARIABLES orders, issued, now, products, resp, procs, mutex, trail,
          objs, arrs, rmap, held, last

vars == <<orders, issued, now, products, resp, procs, mutex, trail,
          objs, arrs, rmap, held, last>>

repoVars == <<objs, arrs, rmap, held, last>>

concVars == <<procs, mutex>>

NoResp == [op |-> "none"]

NProcs == 2

Procs == 1..NProcs

NoReq == [badJSON |-> FALSE, user_id |-> EmptyString, items |-> << >>]

IdleProc ==
    [pc |-> "idle", req |-> NoReq, i |-> 0, orderItems |-> << >>,
     order |-> NoData, code |-> 0, error |-> NilErr]

\* sync.RWMutex: the goroutine holding the write lock (0: none), and the
\* goroutines holding a read lock
FreeMutex == [writer |-> 0, readers |-> {}]

NotCalled == Reply(FALSE, 0, FALSE, FALSE, NoProduct)

\* seedData of the product repository, cut down to two products; prices are
\* in float64 quanta
SeedProducts ==
    ("p1" :> [id |-> "p1", name |-> "Coffee Maker", price |-> 5, stock |-> 1]) @@
    ("p2" :> [id |-> "p2", name |-> "Nike Air Max", price |-> 6, stock |-> 2])

Init ==
    /\ orders = NewInMemoryOrderRepository
    /\ issued = {}
    /\ now = 0
    /\ products = SeedProducts
    /\ resp = NoResp
    /\ procs = [p \in Procs |-> IdleProc]
    /\ mutex = FreeMutex
    /\ trail = << >>
    /\ objs = << >>
    /\ arrs = << >>
    /\ rmap = << >>
    /\ held = {}
    /\ last = [op |-> "none"]

(***************************************************************************)
(* Requests.                                                               *)
(***************************************************************************)
CreateOrderItems ==
    [product_id : CatalogueIds \cup UnknownProductIds, quantity : Quantities]

ItemLists ==
    UNION {[1..n -> CreateOrderItems] : n \in 0..MaxItems}

\* A body that does not decode carries nothing.
CreateOrderRequests ==
    {[badJSON |-> TRUE, user_id |-> EmptyString, items |-> << >>]} \cup
    [badJSON : {FALSE}, user_id : UserIds \cup {EmptyString}, items : ItemLists]

WalkThroughRequests ==
    {req \in CreateOrderRequests :
        /\ ~req.badJSON
        /\ req.user_id # EmptyString
        /\ req.items \in {<<[product_id |-> "p1", quantity |-> 1]>>,
                          <<[product_id |-> "p1", quantity |-> 1],
                            [product_id |-> "p2", quantity |-> 2]>>}}

\* A request ends at the first failed lookup, so at most one lookup fails.
FaultPlans(n) ==
    {plan \in [1..n -> Faults \cup {"ok"}] :
        Cardinality({i \in 1..n : plan[i] # "ok"}) <= 1}

\* the empty path variable
NoId == 0

StatusInputs ==
    {OrderStatusPending, OrderStatusConfirmed, OrderStatusShipped,
     OrderStatusDelivered, OrderStatusCancelled, "wrong", EmptyString}

UpdateOrderStatusRequests ==
    [order_id : OrderIds \cup {NoId}, badJSON : {FALSE}, status : StatusInputs] \cup
    [order_id : OrderIds \cup {NoId}, badJSON : {TRUE}, status : {EmptyString}]

(***************************************************************************)
(* handlers: OrderHandler.                                                 *)
(***************************************************************************)
\* What the handler got back from the calls it made: the user lookup's
\* reply, the product lookups' replies in the order made, and the order
\* GetByID returned.
NoCalls == [user |-> NotCalled, lookups |-> << >>, fetched |-> NoData]

\* sendErrorResponse
ErrorResponse(op, req, statusCode, error, calls) ==
    [op |-> op, req |-> req, code |-> statusCode, success |-> FALSE,
     message |-> EmptyString, error |-> error, data |-> NoData, calls |-> calls]

SuccessResponse(op, req, statusCode, message, data, calls) ==
    [op |-> op, req |-> req, code |-> statusCode, success |-> TRUE,
     message |-> message, error |-> NilErr, data |-> data, calls |-> calls]

\* Faulty variant of IsValidStatus: the status is not validated.
IsValidStatusAny(status) ==
    TRUE

\* validStatuses and the loop over it
IsValidStatus(status) ==
    status \in {OrderStatusPending, OrderStatusConfirmed, OrderStatusShipped,
                OrderStatusDelivered, OrderStatusCancelled}

\* uuid.New(): an id never returned before
NewUUIDs(used) ==
    OrderIds \ used

\* POST /orders, for a request drawn from requests
CreateOrderFrom(requests) ==
    /\ resp = NoResp
    /\ UNCHANGED <<now, products, concVars>>
    /\ \E req \in requests :
        LET Err(text, calls) ==
                /\ resp' = ErrorResponse("CreateOrder", req, StatusBadRequest,
                                         text, calls)
                /\ UNCHANGED <<orders, issued>>
        IN
        IF req.badJSON THEN Err(Msg("Invalid JSON payload"), NoCalls)
        ELSE IF req.user_id = EmptyString \/ Len(req.items) = 0
        THEN Err(Msg("User ID and at least one item are required"), NoCalls)
        ELSE \E user \in UserReplies :
          IF CheckUserExists(user) # NilErr
          THEN Err(Msg("Invalid user ID"), [NoCalls EXCEPT !.user = user])
          ELSE \E plan \in FaultPlans(Len(req.items)) :
            LET replies == [i \in 1..Len(req.items) |->
                               ProductReply(products, req.items[i].product_id, plan[i])]
                v == ValidateOrderItems(req.items, replies)
                calls == [NoCalls EXCEPT !.user = user,
                                         !.lookups = SubSeq(replies, 1, v.calls)]
            IN IF v.err # NilErr
               THEN Err(v.err, calls)
               ELSE \E id \in NewUUIDs(issued) :
                 LET order == NewOrder(req.user_id, v.items, id, now)
                     c == RepoCreate(orders, order)
                 IN /\ issued' = issued \cup {id}
                    /\ orders' = c.store
                    /\ resp' = IF c.err # NilErr
                               THEN ErrorResponse("CreateOrder", req,
                                        StatusInternalServerError,
                                        Msg("Failed to create order"), calls)
                               ELSE SuccessResponse("CreateOrder", req, StatusCreated,
                                        "Order created successfully", order, calls)

\* PATCH /orders/{id}/status
UpdateOrderStatusFrom(requests) ==
    /\ resp = NoResp
    /\ UNCHANGED <<now, products, issued, concVars>>
    /\ \E req \in requests :
        LET Err(code, text, calls) ==
                /\ resp' = ErrorResponse("UpdateOrderStatus", req, code, Msg(text),
                                         calls)
                /\ orders' = orders
        IN
        IF req.order_id = NoId
        THEN Err(StatusBadRequest, "Order ID is required", NoCalls)
        ELSE IF req.badJSON
        THEN Err(StatusBadRequest, "Invalid JSON payload", NoCalls)
        ELSE IF ~IsValidStatus(req.status)
        THEN Err(StatusBadRequest, "Invalid order status", NoCalls)
        ELSE LET g == RepoGetByID(orders, req.order_id)
                 calls == [NoCalls EXCEPT !.fetched = g.order]
             IN
          IF g.err # NilErr THEN Err(StatusNotFound, "Order not found", NoCalls)
          ELSE IF req.status = OrderStatusCancelled /\ ~CanBeCancelled(g.order)
          THEN Err(StatusBadRequest, "Order cannot be cancelled in current status",
                   calls)
          ELSE LET order == UpdateStatus(g.order, req.status, now)
                   u == RepoUpdate(orders, order)
               IN /\ orders' = u.store
                  /\ resp' = IF u.err # NilErr
                             THEN ErrorResponse("UpdateOrderStatus", req,
                                      StatusInternalServerError,
                                      Msg("Failed to update order status"), calls)
                             ELSE SuccessResponse("UpdateOrderStatus", req, StatusOK,
                                      "Order status updated successfully", order,
                                      calls)

\* The caller receives the response; the next request can be handled.
Deliver ==
    /\ resp # NoResp
    /\ resp' = NoResp
    /\ UNCHANGED <<orders, issued, now, products, concVars, trail, repoVars>>

\* time passes
Tick ==
    /\ resp = NoResp
    /\ now < MaxTime
    /\ now' = now + 1
    /\ UNCHANGED <<orders, issued, products, resp, concVars, trail, repoVars>>

\* product service, PATCH /products/{id}/stock
ProductUpdateStock ==
    /\ resp = NoResp
    /\ \E id \in CatalogueIds \cup UnknownProductIds, quantity \in Stocks \cup {-1} :
          products' = ProductRepoUpdateStock(products, id, quantity).store
    /\ UNCHANGED <<orders, issued, now, resp, concVars, trail, repoVars>>

\* POST /orders with any body
CreateOrderAny ==
    /\ CreateOrderFrom(CreateOrderRequests)
    /\ UNCHANGED <<trail, repoVars>>

\* POST /orders with a body of the README's walk-through: one product, or two
CreateOrder ==
    /\ CreateOrderFrom(WalkThroughRequests)
    /\ UNCHANGED <<trail, repoVars>>

\* PATCH /orders/{id}/status with any body
UpdateOrderStatus ==
    /\ UpdateOrderStatusFrom(UpdateOrderStatusRequests)
    /\ UNCHANGED <<trail, repoVars>>

(***************************************************************************)
(* Spec: the life of orders.  Orders are created from the walk-through     *)
(* requests, their status is updated by any request, time passes and the   *)
(* product service's stock changes.                                        *)
(***************************************************************************)
Next ==
    \/ CreateOrder
    \/ UpdateOrderStatus
    \/ Deliver
    \/ Tick
    \/ ProductUpdateStock

Spec == Init /\ [][Next]_vars

(***************************************************************************)
(* SpecCreate: order creation from every request body, against the seeded  *)
(* catalogue.                                                              *)
(***************************************************************************)
NextCreate ==
    \/ CreateOrderAny
    \/ Deliver

SpecCreate == Init /\ [][NextCreate]_vars

(***************************************************************************)
(* SpecScenario: the end-to-end scenario.  Orders of one item are created  *)
(* and their status is updated; trail keeps each order's status history,   *)
(* up to MaxTrail statuses.                                                *)
(***************************************************************************)
MaxTrail == 4

ScenarioRequests ==
    {req \in WalkThroughRequests : Len(req.items) = 1}

ScenarioCreateOrder ==
    /\ CreateOrderFrom(ScenarioRequests)
    /\ trail' = IF resp'.code = StatusCreated
                THEN (resp'.data.id :> <<resp'.data.status>>) @@ trail
                ELSE trail
    /\ UNCHANGED repoVars

ScenarioUpdateOrderStatus ==
    /\ \A id \in DOMAIN trail : Len(trail[id]) < MaxTrail
    /\ UpdateOrderStatusFrom(UpdateOrderStatusRequests)
    /\ trail' = IF resp'.code = StatusOK
                THEN [trail EXCEPT ![resp'.data.id] = Append(@, resp'.data.status)]
                ELSE trail
    /\ UNCHANGED repoVars

NextScenario ==
    \/ ScenarioCreateOrder
    \/ ScenarioUpdateOrderStatus
    \/ Deliver

SpecScenario == Init /\ [][NextScenario]_vars

(***************************************************************************)
(* SpecConc: NProcs CreateOrder requests, each on its own goroutine.  A    *)
(* goroutine takes one step per outbound call and per operation on the     *)
(* repository's mutex; the steps of different goroutines interleave.       *)
(***************************************************************************)
ConcRequests ==
    WalkThroughRequests \cup
    {[badJSON |-> TRUE, user_id |-> EmptyString, items |-> << >>]}

Finish(p, code, error) ==
    procs' = [procs EXCEPT ![p].pc = "done", ![p].code = code, ![p].error = error]

\* the request arrives: Decode and the basic validation
ConcDecode(p) ==
    /\ procs[p].pc = "idle"
    /\ \E req \in ConcRequests :
        IF req.badJSON
        THEN procs' = [procs EXCEPT ![p].pc = "done", ![p].req = req,
                          ![p].code = StatusBadRequest,
                          ![p].error = Msg("Invalid JSON payload")]
        ELSE IF req.user_id = EmptyString \/ Len(req.items) = 0
        THEN procs' = [procs EXCEPT ![p].pc = "done", ![p].req = req,
                          ![p].code = StatusBadRequest,
                          ![p].error = Msg("User ID and at least one item are required")]
        ELSE procs' = [procs EXCEPT ![p].pc = "checkUser", ![p].req = req]
    /\ UNCHANGED <<orders, issued, now, products, resp, mutex, trail, repoVars>>

\* h.client.CheckUserExists: one round trip to the user service
ConcCheckUser(p) ==
    /\ procs[p].pc = "checkUser"
    /\ \E user \in UserReplies :
        IF CheckUserExists(user) # NilErr
        THEN Finish(p, StatusBadRequest, Msg("Invalid user ID"))
        ELSE procs' = [procs EXCEPT ![p].pc = "validate", ![p].i = 1]
    /\ UNCHANGED <<orders, issued, now, products, resp, mutex, trail, repoVars>>

\* one iteration of the loop of ValidateOrderItems: one round trip to the
\* product service, which answers from its stock of that moment
ConcLookup(p) ==
    /\ procs[p].pc = "validate"
    /\ LET me == procs[p]
           item == me.req.items[me.i]
       IN \E fault \in Faults \cup {"ok"} :
           LET v == ValidateFrom(<<item>>,
                                 <<ProductReply(products, item.product_id, fault)>>,
                                 1, << >>)
           IN IF v.err # NilErr
              THEN Finish(p, StatusBadRequest, v.err)
              ELSE procs' = [procs EXCEPT
                      ![p].orderItems = me.orderItems \o v.items,
                      ![p].i = me.i + 1,
                      ![p].pc = IF me.i = Len(me.req.items)
                                THEN "newOrder" ELSE "validate"]
    /\ UNCHANGED <<orders, issued, now, products, resp, mutex, trail, repoVars>>

\* models.NewOrder
ConcNewOrder(p) ==
    /\ procs[p].pc = "newOrder"
    /\ \E id \in NewUUIDs(issued) :
        /\ issued' = issued \cup {id}
        /\ procs' = [procs EXCEPT ![p].pc = "lock",
                        ![p].order = NewOrder(procs[p].req.user_id,
                                              procs[p].orderItems, id, now)]
    /\ UNCHANGED <<orders, now, products, resp, mutex, trail, repoVars>>

\* repository Create: r.mutex.Lock()
ConcLock(p) ==
    /\ procs[p].pc = "lock"
    /\ mutex.writer = 0
    /\ mutex.readers = {}
    /\ mutex' = [mutex EXCEPT !.writer = p]
    /\ procs' = [procs EXCEPT ![p].pc = "store"]
    /\ UNCHANGED <<orders, issued, now, products, resp, trail, repoVars>>

\* repository Create: r.orders[order.ID] = order
ConcStore(p) ==
    /\ procs[p].pc = "store"
    /\ orders' = RepoCreate(orders, procs[p].order).store
    /\ procs' = [procs EXCEPT ![p].pc = "unlock"]
    /\ UNCHANGED <<issued, now, products, resp, mutex, trail, repoVars>>

\* repository Create: the deferred r.mutex.Unlock(), and the 201 response
ConcUnlock(p) ==
    /\ procs[p].pc = "unlock"
    /\ mutex' = [mutex EXCEPT !.writer = 0]
    /\ Finish(p, StatusCreated, NilErr)
    /\ UNCHANGED <<orders, issued, now, products, resp, trail, repoVars>>

ConcTick ==
    /\ now < MaxTime
    /\ now' = now + 1
    /\ UNCHANGED <<orders, issued, products, resp, concVars, trail, repoVars>>

NextConc ==
    \/ \E p \in Procs : ConcDecode(p)
    \/ \E p \in Procs : ConcCheckUser(p)
    \/ \E p \in Procs : ConcLookup(p)
    \/ \E p \in Procs : ConcNewOrder(p)
    \/ \E p \in Procs : ConcLock(p)
    \/ \E p \in Procs : ConcStore(p)
    \/ \E p \in Procs : ConcUnlock(p)
    \/ ConcTick

SpecConc == Init /\ [][NextConc]_vars

(***************************************************************************)
(* Properties.  A request step is a step that puts a response in flight;   *)
(* resp' then holds the request, the response and the replies the handler  *)
(* got from the user service and the product service.                      *)
(***************************************************************************)
RequestStep(op) ==
    resp = NoResp /\ resp' # NoResp /\ resp'.op = op

Answered(op) ==
    resp # NoResp /\ resp.op = op

\* the body decodes and has a user id and at least one item
WellFormed(req) ==
    ~req.badJSON /\ req.user_id # EmptyString /\ Len(req.items) >= 1

\* the reply is a 200 whose body decodes to a success envelope
Found(reply) ==
    ~reply.neterr /\ reply.status = StatusOK /\ reply.decodable /\ reply.success

\* the lookup found the product, and its stock covers the quantity
Resolves(reply, item) ==
    Found(reply) /\ reply.data.stock >= item.quantity

\* the sum, in float64 and in request order, of price * quantity, with the
\* prices the lookups returned
RECURSIVE PriceTimesQuantitySum(_, _, _, _)
PriceTimesQuantitySum(items, replies, i, sum) ==
    IF i > Len(items) THEN sum
    ELSE PriceTimesQuantitySum(items, replies, i + 1,
             F64Add(sum, F64Mul(replies[i].data.price, F64FromInt(items[i].quantity))))

\* C1: a createOrder request that is well formed, whose user lookup finds the
\* user and whose every product lookup finds a product with stock >= the
\* requested quantity, is answered 201; the order it returns is new in the
\* repository, stored as returned, pending, and its totalPrice is the sum over
\* the request's items of (price the lookup returned * requested quantity).
C1_ValidCreateOrderPersistsPendingWithTotal ==
    [][(/\ RequestStep("CreateOrder")
        /\ WellFormed(resp'.req)
        /\ Found(resp'.calls.user)
        /\ \A i \in DOMAIN resp'.calls.lookups :
              Resolves(resp'.calls.lookups[i], resp'.req.items[i]))
       => (/\ resp'.code = StatusCreated
           /\ resp'.success
           /\ Len(resp'.calls.lookups) = Len(resp'.req.items)
           /\ resp'.data.id \notin DOMAIN orders
           /\ resp'.data.id \in DOMAIN orders'
           /\ orders'[resp'.data.id] = resp'.data
           /\ resp'.data.status = OrderStatusPending
           /\ resp'.data.total_price =
                 PriceTimesQuantitySum(resp'.req.items, resp'.calls.lookups, 1, 0))]_vars

\* C1 happens: a two-item order was created whose float64 total is rounded
\* (it differs from the sum of the subtotals taken in the integers).
C1_Witness ==
    /\ Answered("CreateOrder")
    /\ resp.code = StatusCreated
    /\ Len(resp.req.items) = 2
    /\ resp.data.id \in DOMAIN orders
    /\ resp.data.total_price # resp.data.items[1].subtotal + resp.data.items[2].subtotal

\* C2: a createOrder request whose user lookup fails (no response, a status
\* other than 200, a body that does not decode, success = false) is answered
\* 400 and leaves the repository as it was: list() returns the same orders.
C2_FailedUserCheckPersistsNothing ==
    [][(/\ RequestStep("CreateOrder")
        /\ WellFormed(resp'.req)
        /\ ~Found(resp'.calls.user))
       => (/\ resp'.code = StatusBadRequest
           /\ ~resp'.success
           /\ RepoList(orders') = RepoList(orders)
           /\ DOMAIN orders' = DOMAIN orders)]_vars

\* C2 happens: the user lookup came back 200 with success = false, the
\* request was refused, and the repository holds an order.
C2_Witness ==
    /\ Answered("CreateOrder")
    /\ resp.calls.user # NotCalled
    /\ resp.calls.user.status = StatusOK /\ resp.calls.user.decodable /\ ~resp.calls.user.success
    /\ resp.code = StatusBadRequest
    /\ DOMAIN orders # {}

\* item i of the request asks for more than the catalogue has of its product
ExceedsStock(item, prods) ==
    item.product_id \in DOMAIN prods /\ item.quantity > prods[item.product_id].stock

\* the error is the one ValidateOrderItems gives for lookup i, the first
\* lookup that did not resolve: the requested id when the lookup failed, the
\* product's name when the stock is short
NamesOffender(error, items, lookups, i) ==
    /\ \A j \in 1..(i - 1) : Resolves(lookups[j], items[j])
    /\ ~Resolves(lookups[i], items[i])
    /\ IF Found(lookups[i])
       THEN /\ error.kind = "insufficient stock for product"
            /\ error.product = lookups[i].data.name
            /\ error.available = lookups[i].data.stock
            /\ error.requested = items[i].quantity
       ELSE /\ error.kind = "invalid product"
            /\ error.product = items[i].product_id

\* C3: a createOrder request of an existing user in which some item's
\* quantity exceeds the current stock of its product is answered 400, nothing
\* is persisted, and the error names the offending product: the product of
\* the first item, in request order, whose lookup failed or whose quantity
\* exceeds the stock.
C3_ExcessQuantityRefusedNamingProduct ==
    [][(/\ RequestStep("CreateOrder")
        /\ WellFormed(resp'.req)
        /\ Found(resp'.calls.user)
        /\ \E i \in DOMAIN resp'.req.items : ExceedsStock(resp'.req.items[i], products))
       => (/\ resp'.code = StatusBadRequest
           /\ ~resp'.success
           /\ orders' = orders
           /\ \E i \in DOMAIN resp'.calls.lookups :
                 NamesOffender(resp'.error, resp'.req.items, resp'.calls.lookups, i))]_vars

\* C3 happens: the second item of a request exceeded the stock, the first
\* resolved, the request was refused, and the repository holds an order.
C3_Witness ==
    /\ Answered("CreateOrder")
    /\ resp.code = StatusBadRequest
    /\ Len(resp.calls.lookups) = 2
    /\ Found(resp.calls.lookups[2])
    /\ ExceedsStock(resp.req.items[2], products)
    /\ resp.error.kind = "insufficient stock for product"
    /\ DOMAIN orders # {}

\* the request names a stored order and its body decodes
OnStoredOrder(req, store) ==
    req.order_id \in DOMAIN store /\ ~req.badJSON

\* C4: with requests handled one at a time, a stored status becomes
\* cancelled only from pending or confirmed, and a request to cancel a
\* shipped or delivered order is answered 400 and changes no stored order.
C4_CancelOnlyFromPendingOrConfirmed ==
    [][/\ \A id \in DOMAIN orders' :
            (/\ orders'[id].status = OrderStatusCancelled
             /\ ~(id \in DOMAIN orders /\ orders[id].status = OrderStatusCancelled))
            => (/\ id \in DOMAIN orders
                /\ orders[id].status \in {OrderStatusPending, OrderStatusConfirmed})
       /\ (/\ RequestStep("UpdateOrderStatus")
           /\ OnStoredOrder(resp'.req, orders)
           /\ resp'.req.status = OrderStatusCancelled
           /\ orders[resp'.req.order_id].status \in
                 {OrderStatusShipped, OrderStatusDelivered})
          => (/\ resp'.code = StatusBadRequest
              /\ ~resp'.success
              /\ orders' = orders)]_vars

\* C4 happens: a request to cancel a shipped order was answered 400 and the
\* order is still shipped.
C4_Witness ==
    /\ Answered("UpdateOrderStatus")
    /\ resp.req.status = OrderStatusCancelled
    /\ resp.code = StatusBadRequest
    /\ resp.calls.fetched # NoData
    /\ resp.calls.fetched.status = OrderStatusShipped
    /\ orders[resp.req.order_id].status = OrderStatusShipped

\* the order has been stored as pending, then confirmed, then cancelled
WentPendingConfirmedCancelled(id) ==
    /\ id \in DOMAIN trail
    /\ trail[id] = <<OrderStatusPending, OrderStatusConfirmed, OrderStatusCancelled>>

\* C5 as claimed: after an order has gone pending -> confirmed -> cancelled,
\* a request to set it shipped is answered 400 and the stored status stays
\* cancelled.
C5_Claimed_ShipAfterCancelRefused ==
    [][(/\ RequestStep("UpdateOrderStatus")
        /\ OnStoredOrder(resp'.req, orders)
        /\ WentPendingConfirmedCancelled(resp'.req.order_id)
        /\ resp'.req.status = OrderStatusShipped)
       => (/\ resp'.code = StatusBadRequest
           /\ orders'[resp'.req.order_id].status = OrderStatusCancelled)]_vars

\* C5 as amended: after an order has gone pending -> confirmed -> cancelled,
\* a request to set it shipped is answered 200 and the stored status becomes
\* shipped; only a request to cancel it again is answered 400 and leaves it
\* cancelled.
C5_ShipAfterCancelAccepted ==
    [][(/\ RequestStep("UpdateOrderStatus")
        /\ OnStoredOrder(resp'.req, orders)
        /\ WentPendingConfirmedCancelled(resp'.req.order_id))
       => (/\ resp'.req.status = OrderStatusShipped
              => (/\ resp'.code = StatusOK
                  /\ orders'[resp'.req.order_id].status = OrderStatusShipped)
           /\ resp'.req.status = OrderStatusCancelled
              => (/\ resp'.code = StatusBadRequest
                  /\ orders' = orders))]_vars

\* C5 happens: an order went pending, confirmed, cancelled, shipped.
C5_Witness ==
    \E id \in DOMAIN trail :
        /\ trail[id] = <<OrderStatusPending, OrderStatusConfirmed,
                         OrderStatusCancelled, OrderStatusShipped>>
        /\ orders[id].status = OrderStatusShipped

\* C6 as claimed: once an order's stored status is delivered, no later
\* request changes it.
C6_Claimed_DeliveredNeverChanges ==
    [][\A id \in DOMAIN orders :
          orders[id].status = OrderStatusDelivered
          => orders'[id].status = OrderStatusDelivered]_vars

\* C6 as amended: once an order's stored status is delivered, no later
\* request changes it to cancelled (a request to cancel it is answered 400 and
\* changes nothing); a request to set it pending, confirmed or shipped is
\* answered 200 and does change it.
C6_DeliveredOnlyCancelRefused ==
    [][\A id \in DOMAIN orders :
          orders[id].status = OrderStatusDelivered
          => (/\ orders'[id].status # OrderStatusCancelled
              /\ (/\ RequestStep("UpdateOrderStatus")
                  /\ OnStoredOrder(resp'.req, orders)
                  /\ resp'.req.order_id = id)
                 => (/\ resp'.req.status = OrderStatusCancelled
                        => (resp'.code = StatusBadRequest /\ orders' = orders)
                     /\ resp'.req.status \in {OrderStatusPending, OrderStatusConfirmed,
                                              OrderStatusShipped}
                        => (/\ resp'.code = StatusOK
                            /\ orders'[id].status = resp'.req.status)))]_vars

\* C6 happens: a delivered order was set back to pending.
C6_Witness ==
    /\ Answered("UpdateOrderStatus")
    /\ resp.code = StatusOK
    /\ resp.calls.fetched.status = OrderStatusDelivered
    /\ resp.req.status = OrderStatusPending
    /\ orders[resp.req.order_id].status = OrderStatusPending

\* C7: for a stored order and a target status among pending, confirmed,
\* shipped, delivered, the request is answered 200 and the stored status is
\* the target, whatever the status was.
C7_NonCancelTargetAlwaysAccepted ==
    [][(/\ RequestStep("UpdateOrderStatus")
        /\ OnStoredOrder(resp'.req, orders)
        /\ resp'.req.status \in {OrderStatusPending, OrderStatusConfirmed,
                                 OrderStatusShipped, OrderStatusDelivered})
       => (/\ resp'.code = StatusOK
           /\ resp'.success
           /\ resp'.data.status = resp'.req.status
           /\ orders'[resp'.req.order_id].status = resp'.req.status)]_vars

\* C7 happens: a pending order was set delivered, skipping confirmed and
\* shipped.
C7_Witness ==
    /\ Answered("UpdateOrderStatus")
    /\ resp.code = StatusOK
    /\ resp.calls.fetched.status = OrderStatusPending
    /\ resp.req.status = OrderStatusDelivered
    /\ orders[resp.req.order_id].status = OrderStatusDelivered

\* C8: a request whose status is none of pending, confirmed, shipped,
\* delivered, cancelled is answered 400 and every stored order is as before.
C8_InvalidStatusRefusedWithoutMutation ==
    [][(/\ RequestStep("UpdateOrderStatus")
        /\ resp'.req.status \notin
              {OrderStatusPending, OrderStatusConfirmed, OrderStatusShipped,
               OrderStatusDelivered, OrderStatusCancelled})
       => (/\ resp'.code = StatusBadRequest
           /\ ~resp'.success
           /\ orders' = orders)]_vars

\* C8 happens: the status "wrong" was sent for a stored order in a body that
\* decodes, and refused.
C8_Witness ==
    /\ Answered("UpdateOrderStatus")
    /\ resp.req.status = "wrong"
    /\ OnStoredOrder(resp.req, orders)
    /\ resp.code = StatusBadRequest
    /\ resp.error = Msg("Invalid order status")

\* the sum, in float64 and in item order, of the items' subtotals
RECURSIVE SubtotalSum(_, _, _)
SubtotalSum(items, i, sum) ==
    IF i > Len(items) THEN sum
    ELSE SubtotalSum(items, i + 1, F64Add(sum, items[i].subtotal))

\* C10: after every step, each stored order's totalPrice is the sum of its
\* items' subtotals, and no step changes the item list of a stored order or
\* removes the order.
C10_TotalIsSumAndItemsFrozen ==
    [][/\ \A id \in DOMAIN orders' :
            orders'[id].total_price = SubtotalSum(orders'[id].items, 1, 0)
       /\ \A id \in DOMAIN orders :
            /\ id \in DOMAIN orders'
            /\ orders'[id].items = orders[id].items
            /\ orders'[id].total_price = orders[id].total_price]_vars

\* C10 happens: an order of two items whose status has been updated, with a
\* total that float64 rounded.
C10_Witness ==
    \E id \in DOMAIN orders :
        /\ Len(orders[id].items) = 2
        /\ orders[id].status = OrderStatusShipped
        /\ orders[id].total_price #
              orders[id].items[1].subtotal + orders[id].items[2].subtotal

\* C9: whatever the interleaving, the CreateOrder requests answered 201 got
\* pairwise distinct ids, and every one of their orders is in list() as it
\* was returned.
C9_ConcurrentCreatesAllListed ==
    \A p \in Procs :
        (procs[p].pc = "done" /\ procs[p].code = StatusCreated)
        => (/\ procs[p].order \in RepoList(orders)
            /\ procs[p].order.id \in DOMAIN orders
            /\ orders[procs[p].order.id] = procs[p].order
            /\ \A q \in Procs \ {p} :
                  (procs[q].pc = "done" /\ procs[q].code = StatusCreated)
                  => procs[q].order.id # procs[p].order.id)

\* C9 happens: every goroutine's request was answered 201.
C9_Witness ==
    /\ \A p \in Procs : procs[p].pc = "done" /\ procs[p].code = StatusCreated
    /\ Cardinality(RepoList(orders)) = NProcs

(***************************************************************************)
(* SpecRepo: the repository as its Go callers see it.  An *Order is an     *)
(* address of objs; the Items field of an Order struct is a slice, here    *)
(* the address in arrs of its backing array.  The caller builds orders,    *)
(* calls the repository's methods with them, keeps the pointers it passed  *)
(* and the pointers it got back, and assigns through them.                 *)
(***************************************************************************)
MaxObjs == 4
MaxHeld == 2

Addrs == 1..MaxObjs

RepoUserIds == {"u1", "u2"}

\* the statuses and the item quantity a caller assigns through a pointer
AssignedStatuses == {OrderStatusConfirmed}
AssignedQuantity == 2

\* the lowest free address
Alloc(used) ==
    CHOOSE a \in Addrs \ used : \A b \in Addrs \ used : a <= b

\* the struct at p with its Items slice read out
Deref(structs, arrays, p) ==
    [structs[p] EXCEPT !.items = arrays[structs[p].items]]

\* garbage collection: what no pointer reaches is gone
Reachable(structs, store, pointers) ==
    {p \in DOMAIN structs : p \in pointers \/ \E id \in DOMAIN store : store[id] = p}

CollectObjs(structs, store, pointers) ==
    [p \in Reachable(structs, store, pointers) |-> structs[p]]

CollectArrs(structs, arrays, store, pointers) ==
    [a \in {structs[p].items : p \in Reachable(structs, store, pointers)} |-> arrays[a]]

\* Create: r.orders[order.ID] = order
RefCreate(store, structs, p) ==
    [store |-> (structs[p].id :> p) @@ store, err |-> NilErr]

\* Faulty variant of RefCopy: the copy is a fresh pending order.
RefCopyReset(structs, p, q) ==
    (q :> [structs[p] EXCEPT !.status = OrderStatusPending]) @@ structs

\* orderCopy := *order; &orderCopy is q
RefCopy(structs, p, q) ==
    (q :> structs[p]) @@ structs

\* GetByID
RefGetByID(store, structs, id) ==
    IF id \notin DOMAIN store
    THEN [objs |-> structs, ptr |-> 0, err |-> Msg("order not found")]
    ELSE LET q == Alloc(DOMAIN structs)
         IN [objs |-> RefCopy(structs, store[id], q), ptr |-> q, err |-> NilErr]

\* the loop of GetByUserID and List over the ids still to visit
RECURSIVE RefCopyAll(_, _, _, _)
RefCopyAll(store, structs, ids, out) ==
    IF ids = {} THEN [objs |-> structs, out |-> out]
    ELSE LET id == CHOOSE i \in ids : TRUE
             q == Alloc(DOMAIN structs)
         IN RefCopyAll(store, RefCopy(structs, store[id], q), ids \ {id},
                       out \cup {q})

RefGetByUserID(store, structs, userID) ==
    RefCopyAll(store, structs,
               {id \in DOMAIN store : structs[store[id]].user_id = userID}, {})

RefList(store, structs) ==
    RefCopyAll(store, structs, DOMAIN store, {})

\* Faulty variant of RefUpdate: an absent id is inserted.
RefUpdateUpsert(store, structs, p) ==
    [store |-> (structs[p].id :> p) @@ [i \in DOMAIN store \ {structs[p].id} |-> store[i]],
     err |-> NilErr]

\* Update
RefUpdate(store, structs, p) ==
    IF structs[p].id \notin DOMAIN store
    THEN [store |-> store, err |-> Msg("order not found")]
    ELSE [store |-> [store EXCEPT ![structs[p].id] = p], err |-> NilErr]

\* Delete
RefDelete(store, id) ==
    IF id \notin DOMAIN store
    THEN [store |-> store, err |-> Msg("order not found")]
    ELSE [store |-> [i \in DOMAIN store \ {id} |-> store[i]], err |-> NilErr]

\* what the caller did last
Did(op, id, ptr, out, err) ==
    [op |-> op, id |-> id, ptr |-> ptr, out |-> out, err |-> err]

\* the free addresses a call needs are there, and the caller can hold the
\* pointers it gets
Room(n) ==
    /\ Cardinality(Addrs \ DOMAIN objs) >= n
    /\ Cardinality(held) + n <= MaxHeld

\* order := models.NewOrder(userID, items), with one item
CallerNewOrder ==
    /\ Room(1)
    /\ \E userID \in RepoUserIds, id \in NewUUIDs(issued) :
        LET p == Alloc(DOMAIN objs)
            a == Alloc(DOMAIN arrs)
            items == <<NewOrderItem("p1", "Coffee Maker", 5, 1)>>
        IN /\ objs' = (p :> [NewOrder(userID, items, id, now) EXCEPT !.items = a]) @@ objs
           /\ arrs' = (a :> items) @@ arrs
           /\ held' = held \cup {p}
           /\ issued' = issued \cup {id}
           /\ last' = Did("new", 0, 0, {}, NilErr)
    /\ UNCHANGED <<rmap, orders, now, products, resp, concVars, trail>>

\* repo.Create(order)
CallCreate ==
    /\ \E p \in held :
        LET r == RefCreate(rmap, objs, p)
        IN /\ rmap' = r.store
           /\ last' = Did("create", objs[p].id, p, {}, r.err)
    /\ UNCHANGED <<objs, arrs, held, orders, issued, now, products, resp, concVars, trail>>

\* got, err := repo.GetByID(id)
CallGetByID ==
    /\ Room(1)
    /\ \E id \in OrderIds :
        LET r == RefGetByID(rmap, objs, id)
        IN /\ objs' = r.objs
           /\ held' = IF r.err = NilErr THEN held \cup {r.ptr} ELSE held
           /\ last' = Did("getById", id, r.ptr, {r.ptr} \ {0}, r.err)
    /\ UNCHANGED <<arrs, rmap, orders, issued, now, products, resp, concVars, trail>>

\* repo.GetByUserID(userID)
CallGetByUserID ==
    /\ Room(Cardinality(DOMAIN rmap))
    /\ \E userID \in RepoUserIds :
        LET r == RefGetByUserID(rmap, objs, userID)
        IN /\ objs' = r.objs
           /\ held' = held \cup r.out
           /\ last' = Did("getByUserId", 0, 0, r.out, NilErr)
    /\ UNCHANGED <<arrs, rmap, orders, issued, now, products, resp, concVars, trail>>

\* repo.List()
CallList ==
    /\ Room(Cardinality(DOMAIN rmap))
    /\ LET r == RefList(rmap, objs)
       IN /\ objs' = r.objs
          /\ held' = held \cup r.out
          /\ last' = Did("list", 0, 0, r.out, NilErr)
    /\ UNCHANGED <<arrs, rmap, orders, issued, now, products, resp, concVars, trail>>

\* repo.Update(order); the struct the map pointed to before may become
\* garbage
CallUpdate ==
    /\ \E p \in held :
        LET r == RefUpdate(rmap, objs, p)
        IN /\ rmap' = r.store
           /\ objs' = CollectObjs(objs, r.store, held)
           /\ arrs' = CollectArrs(objs, arrs, r.store, held)
           /\ last' = Did("update", objs[p].id, p, {}, r.err)
    /\ UNCHANGED <<held, orders, issued, now, products, resp, concVars, trail>>

\* repo.Delete(id)
CallDelete ==
    /\ \E id \in OrderIds :
        LET r == RefDelete(rmap, id)
        IN /\ rmap' = r.store
           /\ objs' = CollectObjs(objs, r.store, held)
           /\ arrs' = CollectArrs(objs, arrs, r.store, held)
           /\ last' = Did("delete", id, 0, {}, r.err)
    /\ UNCHANGED <<held, orders, issued, now, products, resp, concVars, trail>>

\* order.Status = status, through a pointer the caller holds
CallerSetStatus ==
    /\ \E p \in held, status \in AssignedStatuses :
        /\ objs[p].status # status
        /\ objs' = [objs EXCEPT ![p].status = status]
        /\ last' = Did("setStatus", 0, 0, {}, NilErr)
    /\ UNCHANGED <<arrs, rmap, held, orders, issued, now, products, resp, concVars, trail>>

\* order.Items[0].Quantity = quantity, through a pointer the caller holds
CallerSetItem ==
    /\ \E p \in held :
        /\ arrs[objs[p].items][1].quantity # AssignedQuantity
        /\ arrs' = [arrs EXCEPT ![objs[p].items][1].quantity = AssignedQuantity]
        /\ last' = Did("setItem", 0, 0, {}, NilErr)
    /\ UNCHANGED <<objs, rmap, held, orders, issued, now, products, resp, concVars, trail>>

\* the caller lets go of a pointer
CallerDrop ==
    /\ \E p \in held :
        /\ held' = held \ {p}
        /\ objs' = CollectObjs(objs, rmap, held \ {p})
        /\ arrs' = CollectArrs(objs, arrs, rmap, held \ {p})
        /\ last' = Did("drop", 0, 0, {}, NilErr)
    /\ UNCHANGED <<rmap, orders, issued, now, products, resp, concVars, trail>>

NextRepo ==
    \/ CallerNewOrder
    \/ CallCreate
    \/ CallGetByID
    \/ CallGetByUserID
    \/ CallList
    \/ CallUpdate
    \/ CallDelete
    \/ CallerSetStatus
    \/ CallerSetItem
    \/ CallerDrop

SpecRepo == Init /\ [][NextRepo]_vars

\* what reads of the repository return: for each stored id the order, with
\* its items
StoredView ==
    [id \in DOMAIN rmap |-> Deref(objs, arrs, rmap[id])]

\* C11 as claimed: an assignment through a pointer the caller holds (the one
\* it passed to Create, or one returned by GetByID, GetByUserID or List), to a
\* field of the order or to an element of its items, never changes what
\* reads of the repository return.
C11_Claimed_NoCallerAliasing ==
    [][last'.op \in {"setStatus", "setItem"} => StoredView' = StoredView]_vars

\* C12: Create(order) followed immediately by GetByID(order.ID) succeeds and
\* returns a copy, at another address, equal to the created order in every
\* field, its items included.
C12_CreateThenGetByIDRoundTrip ==
    [][(/\ last.op = "create"
        /\ last'.op = "getById"
        /\ last'.id = last.id)
       => (/\ last'.err = NilErr
           /\ last'.ptr # last.ptr
           /\ objs'[last'.ptr] = objs[last.ptr]
           /\ Deref(objs', arrs', last'.ptr) = Deref(objs, arrs, last.ptr))]_vars

\* C12 happens: GetByID returned the copy of a stored order whose status the
\* caller had set to confirmed.
C12_Witness ==
    /\ last.op = "getById"
    /\ last.err = NilErr
    /\ last.ptr \in held
    /\ last.id \in DOMAIN rmap
    /\ rmap[last.id] # last.ptr
    /\ objs[last.ptr].status = OrderStatusConfirmed
    /\ objs[last.ptr] = objs[rmap[last.id]]

\* C15: Update of an order whose id is not stored returns "order not found"
\* and inserts nothing; Delete of an id that is not stored returns "order not
\* found"; in both cases the stored orders are as before.  A GetByID made
\* right after a successful Delete of the same id fails.
C15_UpdateDeleteOfAbsentIdNotFound ==
    [][/\ (last'.op \in {"update", "delete"} /\ last'.id \notin DOMAIN rmap)
          => (/\ last'.err = Msg("order not found")
              /\ rmap' = rmap
              /\ StoredView' = StoredView)
       /\ (last'.op = "delete" /\ last'.id \in DOMAIN rmap)
          => (last'.err = NilErr /\ last'.id \notin DOMAIN rmap')
       /\ (/\ last.op = "delete"
           /\ last.err = NilErr
           /\ last'.op = "getById"
           /\ last'.id = last.id)
          => last'.err = Msg("order not found")]_vars

\* C15 happens: an Update of an order that is not stored was refused while
\* another order is stored.
C15_Witness ==
    /\ last.op = "update"
    /\ last.err = Msg("order not found")
    /\ last.id \notin DOMAIN rmap
    /\ DOMAIN rmap # {}

(***************************************************************************)
(* SpecLock: goroutines calling the repository's methods concurrently.     *)
(* Every method takes r.mutex first (Lock or RLock), runs its body on the  *)
(* map and releases the mutex in a deferred call.                          *)
(***************************************************************************)
RepoMethods == {"create", "update", "delete", "getById", "getByUserId", "list"}

RepoCalls == [op : RepoMethods, id : OrderIds]

\* Faulty variant of LockKind: Create takes the read lock.
LockKindCreateRLock(op) ==
    IF op \in {"update", "delete"} THEN "Lock" ELSE "RLock"

\* the first statement of each method: r.mutex.Lock() or r.mutex.RLock()
LockKind(op) ==
    IF op \in {"create", "update", "delete"} THEN "Lock" ELSE "RLock"

\* the order a create or update call passes
LockOrder(call) ==
    [NewOrder("u1", << >>, call.id, 0) EXCEPT
        !.status = IF call.op = "update" THEN OrderStatusConfirmed
                   ELSE OrderStatusPending]

\* a goroutine calls a method
LockCall(p) ==
    /\ procs[p].pc = "idle"
    /\ \E call \in RepoCalls :
        procs' = [procs EXCEPT ![p].pc = "acquire", ![p].req = call]
    /\ UNCHANGED <<orders, issued, now, products, resp, mutex, trail, repoVars>>

\* sync.RWMutex: Lock returns when no goroutine holds the mutex, RLock when
\* no writer holds it
LockAcquire(p) ==
    /\ procs[p].pc = "acquire"
    /\ mutex.writer = 0
    /\ IF LockKind(procs[p].req.op) = "Lock"
       THEN /\ mutex.readers = {}
            /\ mutex' = [mutex EXCEPT !.writer = p]
       ELSE mutex' = [mutex EXCEPT !.readers = @ \cup {p}]
    /\ procs' = [procs EXCEPT ![p].pc = "body"]
    /\ UNCHANGED <<orders, issued, now, products, resp, trail, repoVars>>

\* the method's body, on the map
LockBody(p) ==
    /\ procs[p].pc = "body"
    /\ LET call == procs[p].req
       IN orders' = CASE call.op = "create" -> RepoCreate(orders, LockOrder(call)).store
                      [] call.op = "update" -> RepoUpdate(orders, LockOrder(call)).store
                      [] call.op = "delete" -> RepoDelete(orders, call.id).store
                      [] OTHER -> orders
    /\ procs' = [procs EXCEPT ![p].pc = "release"]
    /\ UNCHANGED <<issued, now, products, resp, mutex, trail, repoVars>>

\* the deferred r.mutex.Unlock() or r.mutex.RUnlock(), and the return
LockRelease(p) ==
    /\ procs[p].pc = "release"
    /\ mutex' = IF mutex.writer = p
                THEN [mutex EXCEPT !.writer = 0]
                ELSE [mutex EXCEPT !.readers = @ \ {p}]
    /\ procs' = [procs EXCEPT ![p] = IdleProc]
    /\ UNCHANGED <<orders, issued, now, products, resp, trail, repoVars>>

NextLock ==
    \/ \E p \in Procs : LockCall(p)
    \/ \E p \in Procs : LockAcquire(p)
    \/ \E p \in Procs : LockBody(p)
    \/ \E p \in Procs : LockRelease(p)

SpecLock == Init /\ [][NextLock]_vars

\* the goroutine is between its method's lock and unlock
InsideStore(p) ==
    procs[p].pc \in {"body", "release"}

\* C13: in every interleaving, while a goroutine is inside Create, Update or
\* Delete no other goroutine is inside any method of the repository, reads
\* included.
C13_WritersExcludeEveryone ==
    \A p \in Procs :
        (InsideStore(p) /\ procs[p].req.op \in {"create", "update", "delete"})
        => \A q \in Procs \ {p} : ~InsideStore(q)

\* C13 happens: two goroutines are inside reads at the same time, and the
\* store is not empty.
C13_Witness ==
    /\ orders # << >>
    /\ \E p, q \in Procs :
        /\ p # q
        /\ InsideStore(p) /\ procs[p].req.op = "getById"
        /\ InsideStore(q) /\ procs[q].req.op = "list"

\* the quantity of product productID that goroutine p's request asks for in
\* its first item, 0 when the first item is of another product
AsksFor(p, productID) ==
    IF /\ procs[p].req.items # << >>
       /\ procs[p].req.items[1].product_id = productID
    THEN procs[p].req.items[1].quantity
    ELSE 0

\* goroutine p's request was answered 201 and its order is stored
Persisted(p) ==
    /\ procs[p].pc = "done"
    /\ procs[p].code = StatusCreated
    /\ procs[p].order.id \in DOMAIN orders
    /\ orders[procs[p].order.id] = procs[p].order

\* C14: under SpecConc, where every request asks for no more of a product
\* than its stock, no request is ever refused for insufficient stock,
\* whatever the other requests have asked for and stored, and every request
\* answered 201 is stored: the stock check takes no account of other orders.
C14_StockCheckIgnoresOtherOrders ==
    \A p \in Procs :
        procs[p].pc = "done"
        => (/\ procs[p].error.kind # "insufficient stock for product"
            /\ procs[p].code = StatusCreated => Persisted(p))

\* C14 happens: two goroutines' requests for the same product, each within
\* its stock and together above it, are both persisted.
C14_Witness ==
    \E p, q \in Procs :
        /\ p # q
        /\ Persisted(p) /\ Persisted(q)
        /\ AsksFor(p, "p1") >= 1 /\ AsksFor(p, "p1") <= products["p1"].stock
        /\ AsksFor(q, "p1") >= 1 /\ AsksFor(q, "p1") <= products["p1"].stock
        /\ AsksFor(p, "p1") + AsksFor(q, "p1") > products["p1"].stock

\* C16: an UpdateOrderStatus answered 200 changes, of the stored orders, only
\* the target's status and updated_at: updated_at is the time of the request
\* and not before created_at; id, user_id, items, total_price and created_at
\* of the target, and every other stored order, are as before, and a GetByID
\* that follows returns the new status.
C16_UpdateStatusChangesOnlyStatusAndUpdatedAt ==
    [][(RequestStep("UpdateOrderStatus") /\ resp'.code = StatusOK)
       => LET id == resp'.req.order_id
          IN /\ id \in DOMAIN orders
             /\ DOMAIN orders' = DOMAIN orders
             /\ \A other \in DOMAIN orders \ {id} : orders'[other] = orders[other]
             /\ orders'[id].id = orders[id].id
             /\ orders'[id].user_id = orders[id].user_id
             /\ orders'[id].items = orders[id].items
             /\ orders'[id].total_price = orders[id].total_price
             /\ orders'[id].created_at = orders[id].created_at
             /\ orders'[id].status = resp'.req.status
             /\ orders'[id].updated_at = now
             /\ orders'[id].updated_at >= orders'[id].created_at
             /\ RepoGetByID(orders', id).err = NilErr
             /\ RepoGetByID(orders', id).order.status = resp'.req.status]_vars

\* C16 happens: with two orders stored, one was set from pending to shipped
\* at a later time than it was created.
C16_Witness ==
    /\ Answered("UpdateOrderStatus")
    /\ resp.code = StatusOK
    /\ resp.calls.fetched.status = OrderStatusPending
    /\ resp.req.status = OrderStatusShipped
    /\ Cardinality(DOMAIN orders) = 2
    /\ orders[resp.req.order_id].status = OrderStatusShipped
    /\ orders[resp.req.order_id].updated_at > orders[resp.req.order_id].created_at

\* C17: CreateOrder runs the shape check, CheckUserExists, ValidateOrderItems
\* and the repository's Create in that order and stops at the first failure:
\* a request without user id or without items is answered 400 and no call to
\* the user service or the product service is made; when the user check fails
\* the answer is 400 and no product is looked up; a product is looked up only
\* after every earlier lookup passed; and an order is stored only after the
\* user check and the lookup of every item passed.
C17_CreateOrderStepsInOrder ==
    [][RequestStep("CreateOrder")
       => LET req == resp'.req
              user == resp'.calls.user
              lookups == resp'.calls.lookups
          IN /\ ~WellFormed(req)
                => (/\ resp'.code = StatusBadRequest
                    /\ user = NotCalled
                    /\ lookups = << >>
                    /\ orders' = orders)
             /\ (WellFormed(req) /\ ~Found(user))
                => (/\ resp'.code = StatusBadRequest
                    /\ user # NotCalled
                    /\ lookups = << >>
                    /\ orders' = orders)
             /\ lookups # << >> => (WellFormed(req) /\ Found(user))
             /\ Len(lookups) <= Len(req.items)
             /\ \A i \in DOMAIN lookups :
                   i < Len(lookups) => Resolves(lookups[i], req.items[i])
             /\ orders' # orders
                => (/\ WellFormed(req)
                    /\ Found(user)
                    /\ Len(lookups) = Len(req.items)
                    /\ \A i \in DOMAIN lookups : Resolves(lookups[i], req.items[i]))]_vars

\* C17 happens: the user check of a request of two items failed, and no
\* product was looked up.
C17_Witness ==
    /\ Answered("CreateOrder")
    /\ Len(resp.req.items) = 2
    /\ resp.calls.user # NotCalled
    /\ ~Found(resp.calls.user)
    /\ resp.calls.lookups = << >>
    /\ resp.code = StatusBadRequest

\* the call was made and did not come back as a 200 with success = true:
\* no response at all, another status, or a body that does not say success
Fails(reply) ==
    /\ reply # NotCalled
    /\ (reply.neterr \/ reply.status # StatusOK \/ ~reply.decodable \/ ~reply.success)

\* C18: when the call to the user service or a call to the product service
\* fails during CreateOrder (no response, a status other than 200, or a body
\* without success = true), the request is answered 400, never 5xx, and
\* nothing is stored - as when the service answers that the user or product
\* does not exist: a failed user check always gives "Invalid user ID", a
\* failed product lookup always gives "invalid product" with the requested id.
C18_DownstreamFailureIsBadRequest ==
    [][(/\ RequestStep("CreateOrder")
        /\ \/ Fails(resp'.calls.user)
           \/ \E i \in DOMAIN resp'.calls.lookups : Fails(resp'.calls.lookups[i]))
       => (/\ resp'.code = StatusBadRequest
           /\ resp'.code < StatusInternalServerError
           /\ ~resp'.success
           /\ orders' = orders
           /\ Fails(resp'.calls.user) => resp'.error = Msg("Invalid user ID")
           /\ ~Fails(resp'.calls.user)
              => (/\ resp'.error.kind = "invalid product"
                  /\ resp'.error.product =
                        resp'.req.items[Len(resp'.calls.lookups)].product_id))]_vars

\* C18 happens: the product service did not respond to the lookup of the
\* second item, a product it has, and the request was answered 400.
C18_Witness ==
    /\ Answered("CreateOrder")
    /\ Len(resp.calls.lookups) = 2
    /\ resp.calls.lookups[2].neterr
    /\ resp.req.items[2].product_id \in DOMAIN products
    /\ resp.code = StatusBadRequest
    /\ resp.error.kind = "invalid product"

\* C19: ValidateOrderItems takes the items in request order and is all or
\* nothing.  The lookups it makes are those of the first items, every one but
\* the last made found a product with stock >= quantity; if the last made did
\* not, the request ends there with an error, without items and without
\* looking up the later items; otherwise every item was looked up and the
\* order's items are one per requested item, in request order, each with the
\* id, name and price the lookup returned, the requested quantity and
\* subtotal = price * quantity.
C19_ValidateOrderItemsInOrderAllOrNothing ==
    [][(/\ RequestStep("CreateOrder")
        /\ WellFormed(resp'.req)
        /\ Found(resp'.calls.user))
       => LET items == resp'.req.items
              lookups == resp'.calls.lookups
              n == Len(lookups)
          IN /\ n >= 1
             /\ n <= Len(items)
             /\ \A i \in 1..(n - 1) : Resolves(lookups[i], items[i])
             /\ ~Resolves(lookups[n], items[n])
                => (/\ resp'.error # NilErr
                    /\ resp'.data = NoData
                    /\ orders' = orders)
             /\ Resolves(lookups[n], items[n])
                => (/\ n = Len(items)
                    /\ resp'.error = NilErr
                    /\ Len(resp'.data.items) = Len(items)
                    /\ \A i \in 1..n :
                          resp'.data.items[i] =
                             [product_id |-> lookups[i].data.id,
                              product_name |-> lookups[i].data.name,
                              price |-> lookups[i].data.price,
                              quantity |-> items[i].quantity,
                              subtotal |-> F64Mul(lookups[i].data.price,
                                                  F64FromInt(items[i].quantity))])]_vars

\* C19 happens: an order of two items of different products was built, the
\* second of quantity 2.
C19_Witness ==
    /\ Answered("CreateOrder")
    /\ resp.code = StatusCreated
    /\ Len(resp.data.items) = 2
    /\ resp.data.items[1].product_id # resp.data.items[2].product_id
    /\ resp.data.items[2].quantity = 2
    /\ resp.data.items[2].subtotal = F64Mul(resp.data.items[2].price, F64FromInt(2))

\* C20 as claimed: every item of every stored order has a quantity of at
\* least 1, so a createOrder request with an item of quantity 0 or less never
\* results in a stored order.
C20_Claimed_StoredQuantitiesPositive ==
    \A id \in DOMAIN orders :
        \A i \in DOMAIN orders[id].items : orders[id].items[i].quantity >= 1

\* C27: an UpdateOrderStatus request with one of the five statuses for an
\* order id that is not stored is answered 404 "Order not found" and the
\* repository is as before: no order is created.
C27_UpdateStatusOfAbsentOrderNotFound ==
    [][(/\ RequestStep("UpdateOrderStatus")
        /\ ~resp'.req.badJSON
        /\ resp'.req.order_id # NoId
        /\ resp'.req.order_id \notin DOMAIN orders
        /\ resp'.req.status \in
              {OrderStatusPending, OrderStatusConfirmed, OrderStatusShipped,
               OrderStatusDelivered, OrderStatusCancelled})
       => (/\ resp'.code = StatusNotFound
           /\ ~resp'.success
           /\ resp'.error = Msg("Order not found")
           /\ orders' = orders)]_vars

\* C27 happens: with an order stored, a request to confirm an order that is
\* not stored was answered 404.
C27_Witness ==
    /\ Answered("UpdateOrderStatus")
    /\ resp.code = StatusNotFound
    /\ resp.req.status = OrderStatusConfirmed
    /\ resp.req.order_id \notin DOMAIN orders
    /\ DOMAIN orders # {}

(***************************************************************************)
(* SpecRead: the order service's five routes (cmd/main.go: POST /orders,   *)
(* GET /orders, GET /orders/{id}, GET /orders/user/{user_id},              *)
(* PATCH /orders/{id}/status), with orders of two users.  A slice in a     *)
(* response's data is the record [list |-> the set of its elements].       *)
(***************************************************************************)
ReadCreateRequests ==
    [badJSON : {FALSE}, user_id : RepoUserIds,
     items : {<<[product_id |-> "p1", quantity |-> 1]>>}]

ReadStatusRequests ==
    [order_id : OrderIds, badJSON : {FALSE},
     status : {OrderStatusConfirmed, OrderStatusCancelled}]

ListData(elements) ==
    [list |-> elements]

\* GET /orders/{id}
GetOrder ==
    /\ resp = NoResp
    /\ \E id \in OrderIds \cup {NoId} :
        LET req == [order_id |-> id]
            g == RepoGetByID(orders, id)
        IN resp' = IF id = NoId
                   THEN ErrorResponse("GetOrder", req, StatusBadRequest,
                                      Msg("Order ID is required"), NoCalls)
                   ELSE IF g.err # NilErr
                   THEN ErrorResponse("GetOrder", req, StatusNotFound,
                                      Msg("Order not found"), NoCalls)
                   ELSE SuccessResponse("GetOrder", req, StatusOK, EmptyString,
                                        g.order, NoCalls)
    /\ UNCHANGED <<orders, issued, now, products, concVars, trail, repoVars>>

\* GET /orders/user/{user_id}
GetUserOrders ==
    /\ resp = NoResp
    /\ \E userID \in RepoUserIds \cup {EmptyString}, user \in UserReplies :
        LET req == [user_id |-> userID]
        IN resp' = IF userID = EmptyString
                   THEN ErrorResponse("GetUserOrders", req, StatusBadRequest,
                                      Msg("User ID is required"), NoCalls)
                   ELSE IF CheckUserExists(user) # NilErr
                   THEN ErrorResponse("GetUserOrders", req, StatusBadRequest,
                                      Msg("Invalid user ID"),
                                      [NoCalls EXCEPT !.user = user])
                   ELSE SuccessResponse("GetUserOrders", req, StatusOK, EmptyString,
                                        ListData(RepoGetByUserID(orders, userID)),
                                        [NoCalls EXCEPT !.user = user])
    /\ UNCHANGED <<orders, issued, now, products, concVars, trail, repoVars>>

\* GET /orders
ListOrders ==
    /\ resp = NoResp
    /\ resp' = SuccessResponse("ListOrders", [none |-> TRUE], StatusOK, EmptyString,
                               ListData(RepoList(orders)), NoCalls)
    /\ UNCHANGED <<orders, issued, now, products, concVars, trail, repoVars>>

ReadCreateOrder ==
    /\ CreateOrderFrom(ReadCreateRequests)
    /\ UNCHANGED <<trail, repoVars>>

ReadUpdateOrderStatus ==
    /\ UpdateOrderStatusFrom(ReadStatusRequests)
    /\ UNCHANGED <<trail, repoVars>>

NextRead ==
    \/ ReadCreateOrder
    \/ ReadUpdateOrderStatus
    \/ GetOrder
    \/ GetUserOrders
    \/ ListOrders
    \/ Deliver

SpecRead == Init /\ [][NextRead]_vars

\* C22: through the order service's routes no order is ever removed: the set
\* of stored ids only grows, a GetOrder of a stored id is answered 200 with
\* the stored order, and ListOrders is answered 200 with every stored order.
C22_OrdersNeverRemoved ==
    [][/\ \A id \in DOMAIN orders : id \in DOMAIN orders'
       /\ (RequestStep("GetOrder") /\ resp'.req.order_id \in DOMAIN orders)
          => (/\ resp'.code = StatusOK
              /\ resp'.success
              /\ resp'.data = orders[resp'.req.order_id])
       /\ RequestStep("ListOrders")
          => (/\ resp'.code = StatusOK
              /\ resp'.success
              /\ resp'.data.list = {orders[id] : id \in DOMAIN orders})]_vars

\* C22 happens: with two orders stored, the first one created, since
\* cancelled, was fetched with GetOrder.
C22_Witness ==
    /\ Answered("GetOrder")
    /\ resp.code = StatusOK
    /\ resp.req.order_id \in DOMAIN orders
    /\ Cardinality(DOMAIN orders) = 2
    /\ resp.data.status = OrderStatusCancelled
    /\ \E id \in DOMAIN orders :
          orders[id].created_at >= resp.data.created_at /\ id # resp.data.id

\* C23: GetUserOrders checks the user before it reads the repository: when
\* CheckUserExists fails the answer is 400 "Invalid user ID" without orders,
\* whatever is stored; when it passes the answer is 200 with exactly the
\* stored orders whose user_id is the requested one.  Nothing is stored or
\* changed.
C23_GetUserOrdersChecksUserFirst ==
    [][(RequestStep("GetUserOrders") /\ resp'.req.user_id # EmptyString)
       => (/\ resp'.calls.user # NotCalled
           /\ ~Found(resp'.calls.user)
              => (/\ resp'.code = StatusBadRequest
                  /\ resp'.error = Msg("Invalid user ID")
                  /\ resp'.data = NoData)
           /\ Found(resp'.calls.user)
              => (/\ resp'.code = StatusOK
                  /\ resp'.success
                  /\ resp'.data.list =
                        {orders[id] : id \in {i \in DOMAIN orders :
                                                orders[i].user_id = resp'.req.user_id}})
           /\ orders' = orders)]_vars

\* C23 happens: orders of two users are stored, and the orders of one of them
\* were returned.
C23_Witness ==
    /\ Answered("GetUserOrders")
    /\ resp.code = StatusOK
    /\ Cardinality(resp.data.list) = 1
    /\ Cardinality(DOMAIN orders) = 2
    /\ \E id \in DOMAIN orders : orders[id].user_id # resp.req.user_id

(***************************************************************************)
(* SpecCatalogue: orders are created while the product service changes     *)
(* its catalogue: PUT /products/{id}, PATCH /products/{id}/stock, and the  *)
(* product repository's Delete.  An optional field of a request (a nil or  *)
(* set pointer) is a sequence of length 0 or 1.                            *)
(***************************************************************************)
CatalogueRequests ==
    [badJSON : {FALSE}, user_id : UserIds,
     items : {<<[product_id |-> "p1", quantity |-> 1]>>,
              <<[product_id |-> "p2", quantity |-> 2]>>}]

NewNames == {"Espresso Machine"}

\* A float64 price other than the seeded ones
NewPrices == {F64FromInt(7)}

UpdateProductRequests ==
    [name : {<< >>} \cup {<<n>> : n \in NewNames},
     price : {<< >>} \cup {<<x>> : x \in NewPrices},
     stock : {<< >>, <<0>>}]

CatalogueCreateOrder ==
    /\ CreateOrderFrom(CatalogueRequests)
    /\ UNCHANGED <<trail, repoVars>>

\* product service, PUT /products/{id}: the fields the request sets are
\* assigned to the copy GetByID returned, and the copy is stored.
ProductUpdateProduct ==
    /\ resp = NoResp
    /\ \E productID \in CatalogueIds \cup UnknownProductIds,
          req \in UpdateProductRequests :
        LET g == ProductRepoGetByID(products, productID)
            named == IF Len(req.name) = 1
                     THEN [g.product EXCEPT !.name = req.name[1]] ELSE g.product
            priced == IF Len(req.price) = 1
                      THEN [named EXCEPT !.price = req.price[1]] ELSE named
            existingProduct == IF Len(req.stock) = 1
                               THEN [priced EXCEPT !.stock = req.stock[1]] ELSE priced
        IN products' = IF g.err # NilErr
                       THEN products
                       ELSE ProductRepoUpdate(products, existingProduct).store
    /\ UNCHANGED <<orders, issued, now, resp, concVars, trail, repoVars>>

\* product repository Delete, which no route of the product service calls
ProductDelete ==
    /\ resp = NoResp
    /\ \E id \in CatalogueIds \cup UnknownProductIds :
          products' = ProductRepoDelete(products, id).store
    /\ UNCHANGED <<orders, issued, now, resp, concVars, trail, repoVars>>

NextCatalogue ==
    \/ CatalogueCreateOrder
    \/ ProductUpdateProduct
    \/ ProductUpdateStock
    \/ ProductDelete
    \/ Deliver

SpecCatalogue == Init /\ [][NextCatalogue]_vars

\* C21: order items are snapshots.  A created order's items carry the
\* product's name and price of the moment of the lookup, the requested
\* quantity and subtotal = price * quantity; every later step, whatever it
\* does to the product (UpdateProduct, UpdateStock, deletion), leaves each
\* stored order's items and total_price as they are.
C21_OrderItemsAreSnapshots ==
    [][/\ \A id \in DOMAIN orders :
            /\ id \in DOMAIN orders'
            /\ orders'[id].items = orders[id].items
            /\ orders'[id].total_price = orders[id].total_price
       /\ (RequestStep("CreateOrder") /\ resp'.code = StatusCreated)
          => \A i \in 1..Len(resp'.req.items) :
                LET item == orders'[resp'.data.id].items[i]
                    asked == resp'.req.items[i]
                    product == products[asked.product_id]
                IN /\ item.product_id = asked.product_id
                   /\ item.product_name = product.name
                   /\ item.price = product.price
                   /\ item.quantity = asked.quantity
                   /\ item.subtotal = F64Mul(product.price, F64FromInt(asked.quantity))]_vars

\* C21 happens: two orders are stored; the product of one has since been
\* renamed and repriced, the product of the other deleted.
C21_Witness ==
    /\ resp = NoResp
    /\ \E a, b \in DOMAIN orders :
        LET x == orders[a].items[1]
            y == orders[b].items[1]
        IN /\ x.product_id \in DOMAIN products
           /\ products[x.product_id].name # x.product_name
           /\ products[x.product_id].price # x.price
           /\ orders[a].total_price = F64Mul(x.price, F64FromInt(x.quantity))
           /\ y.product_id \notin DOMAIN products

(***************************************************************************)
(* user service.  The repository's map is rmap (user id -> pointer) and    *)
(* the User structs live in objs (pointer -> struct); timestamps are left  *)
(* out.  trail remembers, for each email of a 201, the password of the     *)
(* request.                                                                *)
(***************************************************************************)
MaxUsers == 2

\* uuid.New().String() values of NewUser, none of them an order's id
UserUUIDs == (MaxOrders + 1)..(MaxOrders + MaxUsers)

Emails == {"john@example.com", "jane@example.com"}

Passwords == {"securepassword123", "wrong"}

NoUser == [id |-> 0, name |-> EmptyString, email |-> EmptyString,
           password |-> EmptyString]

NewUser(id, name, email, password) ==
    [id |-> id, name |-> name, email |-> email, password |-> password]

\* user repository Create: the caller's pointer is stored
UserRepoCreate(heap, store, ptr) ==
    IF \E id \in DOMAIN store : heap[store[id]].email = heap[ptr].email
    THEN [store |-> store, err |-> Msg("user with this email already exists")]
    ELSE [store |-> (heap[ptr].id :> ptr) @@ store, err |-> NilErr]

\* Faulty variant of UserRepoGetByID: the password of the stored user is
\* cleared, not that of a copy.
UserRepoGetByIDBlankStored(heap, store, id) ==
    IF id \notin DOMAIN store
    THEN [heap |-> heap, user |-> NoUser, err |-> Msg("user not found")]
    ELSE [heap |-> [heap EXCEPT ![store[id]].password = EmptyString],
          user |-> [heap[store[id]] EXCEPT !.password = EmptyString],
          err |-> NilErr]

\* user repository GetByID: a copy of the struct, its password cleared
UserRepoGetByID(heap, store, id) ==
    IF id \notin DOMAIN store
    THEN [heap |-> heap, user |-> NoUser, err |-> Msg("user not found")]
    ELSE [heap |-> heap,
          user |-> [heap[store[id]] EXCEPT !.password = EmptyString],
          err |-> NilErr]

\* user repository GetByEmail: the stored pointer of a user with the email;
\* the map's iteration order decides which when several have it
UserRepoGetByEmail(heap, store, email) ==
    IF \E id \in DOMAIN store : heap[store[id]].email = email
    THEN {[ptr |-> store[id], err |-> NilErr] :
             id \in {i \in DOMAIN store : heap[store[i]].email = email}}
    ELSE {[ptr |-> 0, err |-> Msg("user not found")]}

\* user repository Update: the caller's pointer is stored
UserRepoUpdate(heap, store, ptr) ==
    IF heap[ptr].id \notin DOMAIN store
    THEN [store |-> store, err |-> Msg("user not found")]
    ELSE [store |-> [store EXCEPT ![heap[ptr].id] = ptr], err |-> NilErr]

\* user repository Delete
UserRepoDelete(store, id) ==
    IF id \notin DOMAIN store
    THEN [store |-> store, err |-> Msg("user not found")]
    ELSE [store |-> [i \in DOMAIN store \ {id} |-> store[i]], err |-> NilErr]

\* user repository List: copies with the password cleared
UserRepoList(heap, store) ==
    {[heap[store[id]] EXCEPT !.password = EmptyString] : id \in DOMAIN store}

CreateUserRequests ==
    [badJSON : BOOLEAN, name : {"John Doe"}, email : Emails \cup {EmptyString},
     password : {"securepassword123", EmptyString}]

LoginRequests ==
    [badJSON : BOOLEAN, email : Emails \cup {EmptyString},
     password : Passwords \cup {EmptyString}]

\* POST /users
CreateUser ==
    /\ resp = NoResp
    /\ \E req \in CreateUserRequests :
        LET Err(code, error) ==
                /\ resp' = ErrorResponse("CreateUser", req, code, error, NoCalls)
                /\ UNCHANGED <<objs, rmap, trail>>
        IN
        IF req.badJSON
        THEN Err(StatusBadRequest, Msg("Invalid JSON payload")) /\ issued' = issued
        ELSE IF \/ req.name = EmptyString
                \/ req.email = EmptyString
                \/ req.password = EmptyString
        THEN /\ Err(StatusBadRequest, Msg("Name, email, and password are required"))
             /\ issued' = issued
        ELSE \E id \in UserUUIDs \ issued :
            LET user == Alloc(DOMAIN objs)
                heap == (user :> NewUser(id, req.name, req.email, req.password))
                            @@ objs
                c == UserRepoCreate(heap, rmap, user)
                \* user.Password = "", through the pointer Create was given
                cleared == [heap EXCEPT ![user].password = EmptyString]
            IN /\ issued' = issued \cup {id}
               /\ IF c.err # NilErr
                  THEN Err(StatusConflict, c.err)
                  ELSE /\ objs' = cleared
                       /\ rmap' = c.store
                       /\ trail' = (req.email :> req.password) @@ trail
                       /\ resp' = SuccessResponse("CreateUser", req, StatusCreated,
                                      "User created successfully", cleared[user],
                                      NoCalls)
    /\ UNCHANGED <<orders, now, products, concVars, held, arrs, last>>

\* GET /users/{id}
GetUserByID ==
    /\ resp = NoResp
    /\ \E id \in UserUUIDs \cup {NoId} :
        LET req == [id |-> id]
            g == UserRepoGetByID(objs, rmap, id)
        IN /\ resp' = IF id = NoId
                      THEN ErrorResponse("GetUser", req, StatusBadRequest,
                                         Msg("User ID is required"), NoCalls)
                      ELSE IF g.err # NilErr
                      THEN ErrorResponse("GetUser", req, StatusNotFound,
                                         Msg("User not found"), NoCalls)
                      ELSE SuccessResponse("GetUser", req, StatusOK, EmptyString,
                                           g.user, NoCalls)
           /\ objs' = IF id = NoId THEN objs ELSE g.heap
    /\ UNCHANGED <<orders, issued, now, products, concVars, trail, held, arrs,
                   rmap, last>>

\* POST /auth/login
Login ==
    /\ resp = NoResp
    /\ \E req \in LoginRequests :
        LET Err(code, text) ==
                resp' = ErrorResponse("Login", req, code, Msg(text), NoCalls)
        IN
        IF req.badJSON THEN Err(StatusBadRequest, "Invalid JSON payload")
        ELSE IF req.email = EmptyString \/ req.password = EmptyString
        THEN Err(StatusBadRequest, "Email and password are required")
        ELSE \E g \in UserRepoGetByEmail(objs, rmap, req.email) :
            IF g.err # NilErr THEN Err(StatusUnauthorized, "Invalid credentials")
            ELSE IF objs[g.ptr].password # req.password
            THEN Err(StatusUnauthorized, "Invalid credentials")
            ELSE resp' = SuccessResponse("Login", req, StatusOK, "Login successful",
                            [user |-> [objs[g.ptr] EXCEPT !.password = EmptyString],
                             token |-> <<"mock-jwt-token-", objs[g.ptr].id>>],
                            NoCalls)
    /\ UNCHANGED <<orders, issued, now, products, concVars, trail, repoVars>>

\* GET /users
ListUsers ==
    /\ resp = NoResp
    /\ resp' = SuccessResponse("ListUsers", [none |-> TRUE], StatusOK, EmptyString,
                               ListData(UserRepoList(objs, rmap)), NoCalls)
    /\ UNCHANGED <<orders, issued, now, products, concVars, trail, repoVars>>

NextUser ==
    \/ CreateUser
    \/ GetUserByID
    \/ Login
    \/ ListUsers
    \/ Deliver

SpecUser == Init /\ [][NextUser]_vars

\* C28 as claimed: once POST /users has answered 201 for email E and password
\* P, a login with E and P is answered 200 "Login successful", and a login
\* with E and another password 401.
C28_Claimed_LoginAfterCreateSucceeds ==
    [][(/\ RequestStep("Login")
        /\ ~resp'.req.badJSON
        /\ resp'.req.email \in DOMAIN trail
        /\ resp'.req.password # EmptyString)
       => IF resp'.req.password = trail[resp'.req.email]
          THEN /\ resp'.code = StatusOK
               /\ resp'.message = "Login successful"
          ELSE resp'.code = StatusUnauthorized]_vars

(***************************************************************************)
(* SpecUserRepo: NProcs goroutines call the methods of the user            *)
(* repository.  A call takes the method's lock, runs its body and releases *)
(* the lock (defer) as it returns.  trail remembers, for each stored id,   *)
(* the password of the struct last passed to Create or Update; last is the *)
(* body that ran most recently.                                            *)
(***************************************************************************)
UserRepoMethods == {"Create", "GetByID", "GetByEmail", "Update", "Delete", "List"}

\* the first statement of each method: r.mutex.Lock() or r.mutex.RLock()
UserLockKind(method) ==
    IF method \in {"Create", "Update", "Delete"} THEN "Lock" ELSE "RLock"

UserCallOf(method, id, email, ptr) ==
    [method |-> method, id |-> id, email |-> email, ptr |-> ptr]

UserProc(pc, call, out, ptr, err) ==
    [pc |-> pc, call |-> call, out |-> out, ptr |-> ptr, err |-> err]

\* the pointers the repository's map and the goroutines hold
UserLive(store, ps) ==
    {store[id] : id \in DOMAIN store} \cup
    UNION {{ps[p].call.ptr, ps[p].ptr} : p \in {q \in Procs : ps[q].pc # "idle"}}

\* garbage collection of the structs nothing points to
UserCollect(heap, store, ps) ==
    [a \in DOMAIN heap \cap UserLive(store, ps) |-> heap[a]]

\* A goroutine calls Create or Update with a struct it has built,
UserCallWrite(p) ==
    /\ procs[p].pc = "idle"
    /\ Cardinality(DOMAIN objs) < MaxObjs
    /\ \E method \in {"Create", "Update"}, email \in Emails :
        \E id \in IF method = "Create" THEN UserUUIDs \ issued ELSE UserUUIDs :
          LET ptr == Alloc(DOMAIN objs)
              password == IF method = "Create" THEN "securepassword123" ELSE "wrong"
          IN /\ objs' = (ptr :> NewUser(id, "John Doe", email, password)) @@ objs
             /\ issued' = IF method = "Create" THEN issued \cup {id} ELSE issued
             /\ procs' = [procs EXCEPT ![p] =
                    UserProc("acquire", UserCallOf(method, id, email, ptr), {}, 0,
                             NilErr)]
    /\ UNCHANGED <<orders, now, products, resp, mutex, trail, arrs, rmap, held, last>>

\* or one of the other methods with an id or an email.
UserCallOther(p) ==
    /\ procs[p].pc = "idle"
    /\ \E call \in {UserCallOf(m, id, EmptyString, 0) :
                       m \in {"GetByID", "Delete"}, id \in UserUUIDs} \cup
                   {UserCallOf("GetByEmail", 0, e, 0) : e \in Emails} \cup
                   {UserCallOf("List", 0, EmptyString, 0)} :
          procs' = [procs EXCEPT ![p] = UserProc("acquire", call, {}, 0, NilErr)]
    /\ UNCHANGED <<orders, issued, now, products, resp, mutex, trail, repoVars>>

UserAcquire(p) ==
    /\ procs[p].pc = "acquire"
    /\ procs[p].call.method \in UserRepoMethods
    /\ mutex.writer = 0
    /\ IF UserLockKind(procs[p].call.method) = "Lock"
       THEN /\ mutex.readers = {}
            /\ mutex' = [mutex EXCEPT !.writer = p]
       ELSE mutex' = [mutex EXCEPT !.readers = @ \cup {p}]
    /\ procs' = [procs EXCEPT ![p].pc = "body"]
    /\ UNCHANGED <<orders, issued, now, products, resp, trail, repoVars>>

UserRan(method, id, password) ==
    [op |-> method, id |-> id, password |-> password]

UserBody(p) ==
    /\ procs[p].pc = "body"
    /\ procs[p].call.method \in UserRepoMethods
    /\ LET call == procs[p].call
           Return(out, ptr, err) ==
               procs' = [procs EXCEPT ![p] = UserProc("release", call, out, ptr, err)]
       IN
       CASE call.method = "Create" ->
              LET c == UserRepoCreate(objs, rmap, call.ptr)
              IN /\ rmap' = c.store
                 /\ objs' = objs
                 /\ trail' = IF c.err = NilErr
                             THEN (call.id :> objs[call.ptr].password) @@ trail
                             ELSE trail
                 /\ last' = UserRan("Create", call.id, EmptyString)
                 /\ Return({}, 0, c.err)
         [] call.method = "Update" ->
              LET u == UserRepoUpdate(objs, rmap, call.ptr)
              IN /\ rmap' = u.store
                 /\ objs' = objs
                 /\ trail' = IF u.err = NilErr
                             THEN (call.id :> objs[call.ptr].password) @@ trail
                             ELSE trail
                 /\ last' = UserRan("Update", call.id, EmptyString)
                 /\ Return({}, 0, u.err)
         [] call.method = "Delete" ->
              LET d == UserRepoDelete(rmap, call.id)
              IN /\ rmap' = d.store
                 /\ objs' = objs
                 /\ trail' = [i \in DOMAIN trail \ {call.id} |-> trail[i]]
                 /\ last' = UserRan("Delete", call.id, EmptyString)
                 /\ Return({}, 0, d.err)
         [] call.method = "GetByID" ->
              LET g == UserRepoGetByID(objs, rmap, call.id)
              IN /\ objs' = g.heap
                 /\ last' = UserRan("GetByID", call.id, g.user.password)
                 /\ Return(IF g.err = NilErr THEN {g.user} ELSE {}, 0, g.err)
                 /\ UNCHANGED <<rmap, trail>>
         [] call.method = "GetByEmail" ->
              \E g \in UserRepoGetByEmail(objs, rmap, call.email) :
                 /\ last' = IF g.err = NilErr
                            THEN UserRan("GetByEmail", objs[g.ptr].id,
                                         objs[g.ptr].password)
                            ELSE UserRan("GetByEmail", 0, EmptyString)
                 /\ Return({}, g.ptr, g.err)
                 /\ UNCHANGED <<objs, rmap, trail>>
         [] call.method = "List" ->
                 /\ last' = UserRan("List", 0, EmptyString)
                 /\ Return(UserRepoList(objs, rmap), 0, NilErr)
                 /\ UNCHANGED <<objs, rmap, trail>>
    /\ UNCHANGED <<orders, issued, now, products, resp, mutex, arrs, held>>

\* defer r.mutex.Unlock() / RUnlock(), and the call returns
UserRelease(p) ==
    /\ procs[p].pc = "release"
    /\ procs[p].call.method \in UserRepoMethods
    /\ mutex' = IF mutex.writer = p
                THEN [mutex EXCEPT !.writer = 0]
                ELSE [mutex EXCEPT !.readers = @ \ {p}]
    /\ procs' = [procs EXCEPT ![p] = IdleProc]
    /\ objs' = UserCollect(objs, rmap, procs')
    /\ UNCHANGED <<orders, issued, now, products, resp, trail, arrs, rmap, held, last>>

NextUserRepo ==
    \E p \in Procs :
        \/ UserCallWrite(p)
        \/ UserCallOther(p)
        \/ UserAcquire(p)
        \/ UserBody(p)
        \/ UserRelease(p)

SpecUserRepo == Init /\ [][NextUserRepo]_vars

UserBodyStep(p, methods) ==
    /\ procs[p].pc = "body"
    /\ procs'[p].pc = "release"
    /\ procs[p].call.method \in methods

\* C29: GetByID and List return users whose password is empty (GetByID the
\* stored user otherwise unchanged) and leave every stored struct as it is;
\* GetByEmail returns the stored user with the password last given to the
\* repository for it.
C29_ReadsStripPasswordStoreKeepsIt ==
    [][\A p \in Procs :
        /\ UserBodyStep(p, {"GetByID", "List"})
           => (/\ \A u \in procs'[p].out : u.password = EmptyString
               /\ (procs[p].call.method = "GetByID" /\ procs'[p].err = NilErr)
                  => procs'[p].out =
                        {[objs[rmap[procs[p].call.id]] EXCEPT
                             !.password = EmptyString]}
               /\ objs' = objs
               /\ rmap' = rmap)
        /\ (UserBodyStep(p, {"GetByEmail"}) /\ procs'[p].err = NilErr)
           => (/\ \E id \in DOMAIN rmap : rmap[id] = procs'[p].ptr
               /\ objs[procs'[p].ptr].email = procs[p].call.email
               /\ objs'[procs'[p].ptr].password = trail[objs[procs'[p].ptr].id]
               /\ objs' = objs)]_vars

\* C29 happens: one goroutine has the stripped copy GetByID returned for a
\* user, and the body that ran last, a GetByEmail, returned that user with
\* the password given at Create.
C29_Witness ==
    /\ last.op = "GetByEmail"
    /\ last.password = "securepassword123"
    /\ \E p \in Procs :
        /\ procs[p].pc = "release"
        /\ procs[p].call.method = "GetByID"
        /\ procs[p].call.id = last.id
        /\ procs[p].err = NilErr
        /\ \A u \in procs[p].out : u.password = EmptyString

UserEmailsUnique(heap, store) ==
    \A a, b \in DOMAIN store :
        a # b => heap[store[a]].email # heap[store[b]].email

NewServiceClientNoTimeout ==
    [timeout |-> 0]

\* NewServiceClient: http.Client{Timeout: 10 * time.Second}
NewServiceClient ==
    [timeout |-> 10]

WaitRequests ==
    {[kind |-> "CreateOrder", badJSON |-> b, user_id |-> "u1", items |-> items] :
        b \in BOOLEAN,
        items \in {<<[product_id |-> "p1", quantity |-> 1]>>,
                   <<[product_id |-> "p1", quantity |-> 1],
                     [product_id |-> "p2", quantity |-> 2]>>}} \cup
    {[kind |-> "GetUserOrders", user_id |-> u] : u \in {"u1", EmptyString}} \cup
    {[kind |-> "GetOrder", order_id |-> id] : id \in OrderIds} \cup
    {[kind |-> "ListOrders"]} \cup
    {[kind |-> "UpdateOrderStatus", order_id |-> id, status |-> st] :
        id \in OrderIds, st \in {OrderStatusConfirmed, OrderStatusCancelled}}

Waiting == {"awaitUser", "awaitProduct"}

\* Faulty variant of Unlock: the lock is kept.
UnlockNever(m, p) ==
    m

\* r.mutex.Unlock() / r.mutex.RUnlock() of goroutine p
Unlock(m, p) ==
    IF m.writer = p
    THEN [m EXCEPT !.writer = 0]
    ELSE [m EXCEPT !.readers = @ \ {p}]

WaitDone(p, code, error) ==
    procs' = [procs EXCEPT ![p].pc = "done", ![p].code = code, ![p].error = error]

\* The request arrives: what the handler does before its first outbound
\* call or repository call.
WaitArrive(p) ==
    /\ procs[p].pc = "idle"
    /\ \E req \in WaitRequests :
        LET \* the request, and the goroutines waiting as it arrives
            arrived == req @@ [during |-> {q \in Procs : procs[q].pc \in Waiting}]
            Go(pc) == procs' = [procs EXCEPT ![p].pc = pc, ![p].req = arrived]
            Refuse(text) ==
                procs' = [procs EXCEPT ![p].pc = "done", ![p].req = arrived,
                             ![p].code = StatusBadRequest, ![p].error = Msg(text)]
        IN
        CASE req.kind = "CreateOrder" ->
               IF req.badJSON THEN Refuse("Invalid JSON payload")
               ELSE IF req.user_id = EmptyString \/ Len(req.items) = 0
               THEN Refuse("User ID and at least one item are required")
               ELSE Go("awaitUser")
          [] req.kind = "GetUserOrders" ->
               IF req.user_id = EmptyString THEN Refuse("User ID is required")
               ELSE Go("awaitUser")
          [] req.kind = "UpdateOrderStatus" ->
               IF ~IsValidStatus(req.status) THEN Refuse("Invalid order status")
               ELSE Go("rlock")
          [] OTHER -> Go("rlock")
    /\ UNCHANGED <<orders, issued, now, products, resp, mutex, trail, repoVars>>

\* what CheckUserExists makes of the reply, or of the error of a call the
\* timer ended
WaitAfterUser(p, reply) ==
    IF CheckUserExists(reply) # NilErr
    THEN WaitDone(p, StatusBadRequest, Msg("Invalid user ID"))
    ELSE IF procs[p].req.kind = "CreateOrder"
    THEN procs' = [procs EXCEPT ![p].pc = "awaitProduct", ![p].i = 1]
    ELSE procs' = [procs EXCEPT ![p].pc = "rlock"]

\* one iteration of the loop of ValidateOrderItems on the reply
WaitAfterProduct(p, reply) ==
    LET me == procs[p]
        v == ValidateFrom(<<me.req.items[me.i]>>, <<reply>>, 1, << >>)
    IN IF v.err # NilErr
       THEN /\ WaitDone(p, StatusBadRequest, v.err)
            /\ issued' = issued
       ELSE IF me.i < Len(me.req.items)
       THEN /\ procs' = [procs EXCEPT ![p].orderItems = me.orderItems \o v.items,
                                      ![p].i = me.i + 1]
            /\ issued' = issued
       ELSE \E id \in NewUUIDs(issued) :
            /\ issued' = issued \cup {id}
            /\ procs' = [procs EXCEPT
                    ![p].pc = "lock",
                    ![p].order = NewOrder(me.req.user_id, me.orderItems \o v.items,
                                          id, now)]

\* the user service answers
WaitUserReply(p) ==
    /\ procs[p].pc = "awaitUser"
    /\ \E user \in UserReplies : WaitAfterUser(p, user)
    /\ UNCHANGED <<orders, issued, now, products, resp, mutex, trail, repoVars>>

\* the product service answers
WaitProductReply(p) ==
    /\ procs[p].pc = "awaitProduct"
    /\ \E fault \in Faults \cup {"ok"} :
          WaitAfterProduct(p, ProductReply(products,
                                           procs[p].req.items[procs[p].i].product_id,
                                           fault))
    /\ UNCHANGED <<orders, now, products, resp, mutex, trail, repoVars>>

\* the timer of the http.Client ends the pending call: httpClient.Get
\* returns an error
WaitTimeout(p) ==
    /\ procs[p].pc \in Waiting
    /\ NewServiceClient.timeout > 0
    /\ IF procs[p].pc = "awaitUser"
       THEN WaitAfterUser(p, NetErr) /\ issued' = issued
       ELSE WaitAfterProduct(p, NetErr)
    /\ UNCHANGED <<orders, now, products, resp, mutex, trail, repoVars>>

\* r.mutex.Lock() / r.mutex.RLock() of a repository method
WaitAcquire(p) ==
    /\ procs[p].pc \in {"lock", "rlock"}
    /\ mutex.writer = 0
    /\ IF procs[p].pc = "lock"
       THEN /\ mutex.readers = {}
            /\ mutex' = [mutex EXCEPT !.writer = p]
            /\ procs' = [procs EXCEPT ![p].pc = "store"]
       ELSE /\ mutex' = [mutex EXCEPT !.readers = @ \cup {p}]
            /\ procs' = [procs EXCEPT ![p].pc = "read"]
    /\ UNCHANGED <<orders, issued, now, products, resp, trail, repoVars>>

\* the body of the repository method: Create or Update under the write
\* lock, GetByID, GetByUserID or List under the read lock
WaitBody(p) ==
    /\ procs[p].pc \in {"store", "read"}
    /\ LET me == procs[p] IN
       IF me.pc = "store"
       THEN LET w == IF me.req.kind = "CreateOrder"
                     THEN RepoCreate(orders, me.order)
                     ELSE RepoUpdate(orders, me.order)
            IN /\ orders' = w.store
               /\ procs' = [procs EXCEPT ![p].pc = "unlock", ![p].error = w.err]
       ELSE /\ orders' = orders
            /\ IF me.req.kind \in {"GetOrder", "UpdateOrderStatus"}
               THEN LET g == RepoGetByID(orders, me.req.order_id)
                    IN procs' = [procs EXCEPT ![p].pc = "runlock",
                                              ![p].order = g.order,
                                              ![p].error = g.err]
               ELSE procs' = [procs EXCEPT ![p].pc = "runlock"]
    /\ UNCHANGED <<issued, now, products, resp, mutex, trail, repoVars>>

\* the deferred Unlock / RUnlock, and what the handler does with the result
\* up to its next repository call or its response
WaitRelease(p) ==
    /\ procs[p].pc \in {"unlock", "runlock"}
    /\ mutex' = Unlock(mutex, p)
    /\ LET me == procs[p] IN
       IF me.pc = "unlock"
       THEN IF me.error # NilErr
            THEN WaitDone(p, StatusInternalServerError,
                          IF me.req.kind = "CreateOrder"
                          THEN Msg("Failed to create order")
                          ELSE Msg("Failed to update order status"))
            ELSE WaitDone(p, IF me.req.kind = "CreateOrder"
                             THEN StatusCreated ELSE StatusOK, NilErr)
       ELSE IF me.req.kind \in {"ListOrders", "GetUserOrders"}
       THEN WaitDone(p, StatusOK, NilErr)
       ELSE IF me.error # NilErr
       THEN WaitDone(p, StatusNotFound, Msg("Order not found"))
       ELSE IF me.req.kind = "GetOrder"
       THEN WaitDone(p, StatusOK, NilErr)
       ELSE IF me.req.status = OrderStatusCancelled /\ ~CanBeCancelled(me.order)
       THEN WaitDone(p, StatusBadRequest,
                     Msg("Order cannot be cancelled in current status"))
       ELSE procs' = [procs EXCEPT
               ![p].pc = "lock",
               ![p].order = UpdateStatus(me.order, me.req.status, now)]
    /\ UNCHANGED <<orders, issued, now, products, resp, trail, repoVars>>

\* the steps of goroutine p that need no one else
WaitRun(p) ==
    \/ WaitAcquire(p)
    \/ WaitBody(p)
    \/ WaitRelease(p)

NextWait ==
    \E p \in Procs :
        \/ WaitArrive(p)
        \/ WaitUserReply(p)
        \/ WaitProductReply(p)
        \/ WaitTimeout(p)
        \/ WaitAcquire(p)
        \/ WaitBody(p)
        \/ WaitRelease(p)

SpecWait == Init /\ [][NextWait]_vars

SpecWaitFair ==
    /\ SpecWait
    /\ \A p \in Procs : WF_vars(WaitRun(p)) /\ WF_vars(WaitTimeout(p))

InFlight(p) ==
    procs[p].pc \notin {"idle", "done"}

\* C25: every createOrder and getUserOrders request is answered, whether or
\* not the user and product services answer; a call the timer ends makes a
\* 400 of the request.
C25_RequestsAnsweredDespiteSilentServices ==
    /\ \A p \in Procs :
          (InFlight(p) /\ procs[p].req.kind \in {"CreateOrder", "GetUserOrders"})
             ~> (procs[p].pc = "done")
    /\ [][\A p \in Procs :
            (/\ procs[p].pc \in Waiting
             /\ procs'[p] # procs[p]
             /\ \/ procs[p].pc = "awaitUser"
                   /\ procs'[p].pc \notin {"awaitProduct", "rlock"}
                \/ procs[p].pc = "awaitProduct"
                   /\ procs'[p].pc \notin {"awaitProduct", "lock"})
            => (procs'[p].pc = "done" /\ procs'[p].code = StatusBadRequest)]_vars

\* C25 happens: a CreateOrder whose user check passed was ended with 400
\* because the call to the product service failed to come back.
C25_Witness ==
    \E p \in Procs :
        /\ procs[p].pc = "done"
        /\ procs[p].req.kind = "CreateOrder"
        /\ procs[p].code = StatusBadRequest
        /\ procs[p].error \in
              {[kind |-> "invalid product", product |-> id,
                cause |-> "failed to call product service"] : id \in CatalogueIds}

\* C26: a goroutine waiting for the user or product service holds neither
\* lock of the repository, and whoever holds one is inside a repository
\* method, between its Lock and its deferred Unlock, where its next step
\* needs no one else.
C26_NoLockHeldWhileWaiting ==
    \A p \in Procs :
        /\ procs[p].pc \in Waiting => (mutex.writer # p /\ p \notin mutex.readers)
        /\ (mutex.writer = p \/ p \in mutex.readers)
           => procs[p].pc \in {"store", "read", "unlock", "runlock"}

\* C26 happens: one CreateOrder is still waiting for the user service, and a
\* request that arrived while it was waiting has stored its order and been
\* answered 201.
C26_Witness ==
    \E p, q \in Procs :
        /\ procs[p].pc = "awaitUser"
        /\ procs[p].req.kind = "CreateOrder"
        /\ procs[q].pc = "done"
        /\ procs[q].code = StatusCreated
        /\ p \in procs[q].req.during
        /\ procs[q].order.id \in DOMAIN orders

(***************************************************************************)
(* SpecEnvelope: every handler of the three services answers one request   *)
(* at a time; resp is the envelope (models.Response) and the status code.  *)
(* A product the product service creates takes an id of NewProductIds.     *)
(***************************************************************************)
NewProductIds == {"p3"}

\* the categories of seedData, and a category no product has
SeedCategory == ("p1" :> "Appliances") @@ ("p2" :> "Footwear")

Categories == {"Appliances", "Footwear", "Toys"}

CategoryOf(product) ==
    IF product.id \in DOMAIN SeedCategory
    THEN SeedCategory[product.id]
    ELSE product.category

\* strings.EqualFold on the strings used here: "coffee maker" and
\* "appliances" are the ones that differ from another only by case
EqualFold(a, b) ==
    LET Fold(x) == IF x = "coffee maker" THEN "Coffee Maker"
                   ELSE IF x = "appliances" THEN "Appliances"
                   ELSE x
    IN Fold(a) = Fold(b)

CreateProductRequests ==
    [badJSON : BOOLEAN, name : {EmptyString, "coffee maker", "Desk Lamp"},
     category : {EmptyString, "Appliances"}, price : {0, F64FromInt(4)},
     stock : {1}]

\* product repository Create with the names compared as written
ProductRepoCreateExactName(prods, product) ==
    IF \E id \in DOMAIN prods : prods[id].name = product.name
    THEN [store |-> prods, err |-> Msg("product with this name already exists")]
    ELSE [store |-> (product.id :> product) @@ prods, err |-> NilErr]

\* product repository Create
ProductRepoCreate(prods, product) ==
    IF \E id \in DOMAIN prods : EqualFold(prods[id].name, product.name)
    THEN [store |-> prods, err |-> Msg("product with this name already exists")]
    ELSE [store |-> (product.id :> product) @@ prods, err |-> NilErr]

\* models.ProductFilter; a zero field is a criterion not set
ProductFilter(category, minPrice, maxPrice, inStock) ==
    [Category |-> category, MinPrice |-> minPrice, MaxPrice |-> maxPrice,
     InStock |-> inStock]

\* product repository List with the category compared as written
ProductRepoListExactCategory(prods, filter) ==
    {prods[id] : id \in {i \in DOMAIN prods :
        /\ ~(filter.Category # EmptyString
              /\ CategoryOf(prods[i]) # filter.Category)
        /\ ~(filter.MinPrice > 0 /\ prods[i].price < filter.MinPrice)
        /\ ~(filter.MaxPrice > 0 /\ prods[i].price > filter.MaxPrice)
        /\ ~(filter.InStock /\ prods[i].stock <= 0)}}

\* product repository List: the products no criterion of the filter skips
ProductRepoList(prods, filter) ==
    {prods[id] : id \in {i \in DOMAIN prods :
        /\ ~(filter.Category # EmptyString
              /\ ~EqualFold(CategoryOf(prods[i]), filter.Category))
        /\ ~(filter.MinPrice > 0 /\ prods[i].price < filter.MinPrice)
        /\ ~(filter.MaxPrice > 0 /\ prods[i].price > filter.MaxPrice)
        /\ ~(filter.InStock /\ prods[i].stock <= 0)}}

\* product repository GetByCategory
ProductRepoGetByCategory(prods, category) ==
    ProductRepoList(prods, ProductFilter(category, 0, 0, FALSE))

\* models.Response with its status code
Envelope(op, req, statusCode, success, message, data, error) ==
    [op |-> op, req |-> req, code |-> statusCode, success |-> success,
     message |-> message, error |-> error, data |-> data, calls |-> NoCalls]

\* POST /products
CreateProductFrom(requests) ==
    /\ resp = NoResp
    /\ \E req \in requests :
        LET Err(code, error) ==
                /\ resp' = ErrorResponse("CreateProduct", req, code, error, NoCalls)
                /\ products' = products
        IN
        IF req.badJSON THEN Err(StatusBadRequest, Msg("Invalid JSON payload"))
        ELSE IF \/ req.name = EmptyString
                \/ req.category = EmptyString
                \/ req.price <= 0
        THEN Err(StatusBadRequest,
                 Msg("Name, category, and positive price are required"))
        ELSE \E id \in NewProductIds \ DOMAIN products :
            LET product == [id |-> id, name |-> req.name, price |-> req.price,
                            stock |-> req.stock, category |-> req.category]
                c == ProductRepoCreate(products, product)
            IN IF c.err # NilErr
               THEN Err(StatusConflict, c.err)
               ELSE /\ products' = c.store
                    /\ resp' = Envelope("CreateProduct", req, StatusCreated, TRUE,
                                        "Product created successfully", product,
                                        NilErr)
    /\ UNCHANGED <<orders, issued, now, concVars, trail, repoVars>>

CreateProduct == CreateProductFrom(CreateProductRequests)

\* GET /products/{id}
GetProductByID ==
    /\ resp = NoResp
    /\ \E productID \in DOMAIN products \cup UnknownProductIds \cup {EmptyString} :
        LET req == [id |-> productID]
            g == ProductRepoGetByID(products, productID)
        IN resp' = IF productID = EmptyString
                   THEN ErrorResponse("GetProduct", req, StatusBadRequest,
                                      Msg("Product ID is required"), NoCalls)
                   ELSE IF g.err # NilErr
                   THEN ErrorResponse("GetProduct", req, StatusNotFound,
                                      Msg("Product not found"), NoCalls)
                   ELSE Envelope("GetProduct", req, StatusOK, TRUE, EmptyString,
                                 g.product, NilErr)
    /\ UNCHANGED <<orders, issued, now, products, concVars, trail, repoVars>>

\* GET /products?in_stock=
ListProducts ==
    /\ resp = NoResp
    /\ \E inStock \in BOOLEAN :
          resp' = Envelope("ListProducts", [in_stock |-> inStock], StatusOK, TRUE,
                           EmptyString,
                           ListData(ProductRepoList(products,
                               ProductFilter(EmptyString, 0, 0, inStock))),
                           NilErr)
    /\ UNCHANGED <<orders, issued, now, products, concVars, trail, repoVars>>

\* GET /products/category/{category}
GetProductsByCategory ==
    /\ resp = NoResp
    /\ \E category \in Categories \cup {EmptyString} :
        LET req == [category |-> category]
        IN resp' = IF category = EmptyString
                   THEN ErrorResponse("GetProductsByCategory", req, StatusBadRequest,
                                      Msg("Category is required"), NoCalls)
                   ELSE Envelope("GetProductsByCategory", req, StatusOK, TRUE,
                                 EmptyString,
                                 ListData(ProductRepoGetByCategory(products, category)),
                                 NilErr)
    /\ UNCHANGED <<orders, issued, now, products, concVars, trail, repoVars>>

\* PUT /products/{id}, with its response: the fields the request sets are
\* assigned to the copy GetByID returned, and the copy is stored
UpdateProductFrom(requests) ==
    /\ resp = NoResp
    /\ \E req \in requests :
        LET g == ProductRepoGetByID(products, req.id)
            named == IF Len(req.name) = 1
                     THEN [g.product EXCEPT !.name = req.name[1]] ELSE g.product
            priced == IF Len(req.price) = 1
                      THEN [named EXCEPT !.price = req.price[1]] ELSE named
            existingProduct == IF Len(req.stock) = 1
                               THEN [priced EXCEPT !.stock = req.stock[1]]
                               ELSE priced
            u == ProductRepoUpdate(products, existingProduct)
            Err(code, text) ==
                /\ resp' = ErrorResponse("UpdateProduct", req, code, Msg(text),
                                         NoCalls)
                /\ products' = products
        IN
        IF req.id = EmptyString
        THEN Err(StatusBadRequest, "Product ID is required")
        ELSE IF g.err # NilErr THEN Err(StatusNotFound, "Product not found")
        ELSE IF req.badJSON THEN Err(StatusBadRequest, "Invalid JSON payload")
        ELSE IF u.err # NilErr
        THEN Err(StatusInternalServerError, "Failed to update product")
        ELSE /\ products' = u.store
             /\ resp' = Envelope("UpdateProduct", req, StatusOK, TRUE,
                                 "Product updated successfully", existingProduct,
                                 NilErr)
    /\ UNCHANGED <<orders, issued, now, concVars, trail, repoVars>>

UpdateProduct ==
    UpdateProductFrom(
        [id : CatalogueIds \cup UnknownProductIds \cup {EmptyString},
         badJSON : BOOLEAN, name : {<< >>} \cup {<<n>> : n \in NewNames},
         price : {<< >>}, stock : {<< >>}])

\* PATCH /products/{id}/stock, with its response: a message and no data
UpdateStock ==
    /\ resp = NoResp
    /\ \E productID \in CatalogueIds \cup UnknownProductIds \cup {EmptyString},
          badJSON \in BOOLEAN, stock \in {-1, 1} :
        LET req == [id |-> productID, badJSON |-> badJSON, stock |-> stock]
            u == ProductRepoUpdateStock(products, productID, stock)
            Err(error) ==
                /\ resp' = ErrorResponse("UpdateStock", req, StatusBadRequest, error,
                                         NoCalls)
                /\ products' = products
        IN
        IF productID = EmptyString THEN Err(Msg("Product ID is required"))
        ELSE IF badJSON THEN Err(Msg("Invalid JSON payload"))
        ELSE IF u.err # NilErr THEN Err(u.err)
        ELSE /\ products' = u.store
             /\ resp' = Envelope("UpdateStock", req, StatusOK, TRUE,
                                 "Stock updated successfully", NoData, NilErr)
    /\ UNCHANGED <<orders, issued, now, concVars, trail, repoVars>>

\* GET /health of each service
HealthCheck ==
    /\ resp = NoResp
    /\ \E service \in {"order-service", "product-service", "user-service"} :
          resp' = Envelope("HealthCheck", [service |-> service], StatusOK, TRUE,
                           "service is healthy",
                           [service |-> service, status |-> "UP"], NilErr)
    /\ UNCHANGED <<orders, issued, now, products, concVars, trail, repoVars>>

EnvelopeCreateOrder ==
    /\ CreateOrderFrom(ScenarioRequests \cup
                       {[badJSON |-> TRUE, user_id |-> EmptyString, items |-> << >>]})
    /\ UNCHANGED <<trail, repoVars>>

NextEnvelope ==
    \/ EnvelopeCreateOrder
    \/ ReadUpdateOrderStatus
    \/ GetOrder
    \/ GetUserOrders
    \/ ListOrders
    \/ CreateUser
    \/ GetUserByID
    \/ Login
    \/ ListUsers
    \/ CreateProduct
    \/ GetProductByID
    \/ ListProducts
    \/ GetProductsByCategory
    \/ UpdateProduct
    \/ UpdateStock
    \/ HealthCheck
    \/ Deliver

SpecEnvelope == Init /\ [][NextEnvelope]_vars

\* C24 as claimed: in every response exactly one of data and error is
\* populated, success is true exactly when it is data, every 2xx response
\* carries data and every 4xx / 5xx response carries error.
C24_Claimed_DataOrErrorNeverNeither ==
    resp # NoResp
    => LET hasData == resp.data # NoData
           hasError == resp.error # NilErr
       IN /\ hasData # hasError
          /\ resp.success <=> hasData
          /\ resp.code \in 200..299 => hasData
          /\ resp.code >= 400 => hasError

(***************************************************************************)
(* The product repository called method by method, as its tests call it:   *)
(* SpecProductRepo.  last holds the call just made, its arguments and what *)
(* it returned.                                                            *)
(***************************************************************************)
RepoProductIds == {"p3", "p4"}

\* models.NewProduct for the Create calls: a name that differs from a seeded
\* one only by case, and a new one
RepoProducts ==
    [id : RepoProductIds, name : {"coffee maker", "Desk Lamp"},
     price : {F64FromInt(4), F64FromInt(7)}, stock : {0, 1},
     category : {"Appliances"}]

StockQuantities == -1..MaxStock

ProductFilters ==
    {ProductFilter(category, minPrice, maxPrice, inStock) :
        category \in {EmptyString, "appliances", "Footwear"},
        minPrice \in {0, F64FromInt(5)},
        maxPrice \in {0, F64FromInt(6)},
        inStock \in BOOLEAN}

ProductDid(op, args, out, err) ==
    [op |-> op, args |-> args, out |-> out, err |-> err]

ProductCallCreate ==
    /\ \E product \in RepoProducts :
        /\ product.id \notin DOMAIN products
        /\ LET c == ProductRepoCreate(products, product) IN
            /\ products' = c.store
            /\ last' = ProductDid("Create", product, {}, c.err)
    /\ UNCHANGED <<orders, issued, now, resp, concVars, trail, objs, arrs, rmap,
                   held>>

ProductCallGetByID ==
    /\ \E id \in CatalogueIds \cup RepoProductIds :
        LET g == ProductRepoGetByID(products, id) IN
        last' = ProductDid("GetByID", [id |-> id],
                           IF g.err = NilErr THEN {g.product} ELSE {}, g.err)
    /\ UNCHANGED <<orders, issued, now, products, resp, concVars, trail, objs,
                   arrs, rmap, held>>

ProductCallDelete ==
    /\ \E id \in CatalogueIds \cup RepoProductIds :
        LET d == ProductRepoDelete(products, id) IN
        /\ products' = d.store
        /\ last' = ProductDid("Delete", [id |-> id], {}, d.err)
    /\ UNCHANGED <<orders, issued, now, resp, concVars, trail, objs, arrs, rmap,
                   held>>

ProductCallList ==
    /\ \E filter \in ProductFilters :
        last' = ProductDid("List", filter, ProductRepoList(products, filter),
                           NilErr)
    /\ UNCHANGED <<orders, issued, now, products, resp, concVars, trail, objs,
                   arrs, rmap, held>>

ProductCallGetByCategory ==
    /\ \E category \in {"appliances", "Footwear", "Toys"} :
        last' = ProductDid("GetByCategory", [category |-> category],
                           ProductRepoGetByCategory(products, category), NilErr)
    /\ UNCHANGED <<orders, issued, now, products, resp, concVars, trail, objs,
                   arrs, rmap, held>>

ProductCallUpdateStock ==
    /\ \E id \in CatalogueIds \cup RepoProductIds, quantity \in StockQuantities :
        LET u == ProductRepoUpdateStock(products, id, quantity) IN
        /\ products' = u.store
        /\ last' = ProductDid("UpdateStock", [id |-> id, quantity |-> quantity],
                              {}, u.err)
    /\ UNCHANGED <<orders, issued, now, resp, concVars, trail, objs, arrs, rmap,
                   held>>

NextProductRepo ==
    \/ ProductCallCreate
    \/ ProductCallGetByID
    \/ ProductCallDelete
    \/ ProductCallList
    \/ ProductCallGetByCategory
    \/ ProductCallUpdateStock

SpecProductRepo == Init /\ [][NextProductRepo]_vars

\* The step is a call of the repository method op with the arguments args.
ProductCallStep(op, args) ==
    /\ last'.op = op
    /\ last'.args = args

\* C31: Create of a product whose name equals a stored product's name,
\* ignoring case, returns an error and leaves the store as it was; Create of
\* a product with a new name returns no error and stores it, so that GetByID
\* then returns it.
C31_CreateRejectsNameStoredIgnoringCase ==
    [][\A product \in RepoProducts :
        ProductCallStep("Create", product)
        => IF \E id \in DOMAIN products :
                 EqualFold(products[id].name, product.name)
           THEN /\ last'.err # NilErr
                /\ products' = products
           ELSE /\ last'.err = NilErr
                /\ ProductRepoGetByID(products', product.id) =
                       [product |-> product, err |-> NilErr]
                /\ \A id \in DOMAIN products :
                       id \in DOMAIN products' /\ products'[id] = products[id]]_vars

\* C31 happens: a product with a new name was created and is stored, and
\* the last Create, of the name "coffee maker" while "Coffee Maker" is
\* stored, returned the error.
C31_Witness ==
    /\ last.op = "Create"
    /\ last.err = Msg("product with this name already exists")
    /\ last.args.name = "coffee maker"
    /\ last.args.id \notin DOMAIN products
    /\ \E id \in DOMAIN products : products[id].name = "Coffee Maker"
    /\ \E id \in DOMAIN products \cap RepoProductIds :
          products[id].name = "Desk Lamp"

\* C32: UpdateStock(id, q) with q >= 0 on a stored product returns no error
\* and sets that product's stock to q, changing no other field of it and no
\* other product; with q < 0 or an id that is not stored it returns an error
\* and every product keeps its stock.
C32_UpdateStockSetsOnlyThatStock ==
    [][\A id \in CatalogueIds \cup RepoProductIds, q \in StockQuantities :
        ProductCallStep("UpdateStock", [id |-> id, quantity |-> q])
        => /\ DOMAIN products' = DOMAIN products
           /\ IF id \in DOMAIN products /\ q >= 0
              THEN /\ last'.err = NilErr
                   /\ products'[id].stock = q
                   /\ [products'[id] EXCEPT !.stock = products[id].stock] =
                          products[id]
                   /\ \A other \in DOMAIN products \ {id} :
                          products'[other] = products[other]
              ELSE /\ last'.err # NilErr
                   /\ \A i \in DOMAIN products :
                          products'[i].stock = products[i].stock]_vars

\* C32 happens: a seeded product's stock was set to a quantity it was not
\* seeded with, and the last UpdateStock, with a negative quantity for a
\* stored product, returned the error.
C32_Witness ==
    /\ last.op = "UpdateStock"
    /\ last.err = Msg("stock quantity cannot be negative")
    /\ last.args.quantity < 0
    /\ last.args.id \in DOMAIN products
    /\ \E id \in DOMAIN products \cap CatalogueIds :
          /\ products[id].stock # SeedProducts[id].stock
          /\ [products[id] EXCEPT !.stock = SeedProducts[id].stock] =
                 SeedProducts[id]

\* C33: List(filter) returns exactly the stored products that meet every
\* criterion the filter sets: the category equal ignoring case when Category
\* is not empty, price >= MinPrice when MinPrice > 0, price <= MaxPrice when
\* MaxPrice > 0, stock > 0 when InStock.  No returned product fails a set
\* criterion and no stored product meeting them all is left out.
C33_ListReturnsExactlyTheMatches ==
    [][\A filter \in ProductFilters :
        ProductCallStep("List", filter)
        => /\ last'.err = NilErr
           /\ products' = products
           /\ \A product \in last'.out :
                \E id \in DOMAIN products : products[id] = product
           /\ \A id \in DOMAIN products :
                products[id] \in last'.out
                <=> /\ filter.Category # EmptyString
                       => EqualFold(CategoryOf(products[id]), filter.Category)
                    /\ filter.MinPrice > 0
                       => products[id].price >= filter.MinPrice
                    /\ filter.MaxPrice > 0
                       => products[id].price <= filter.MaxPrice
                    /\ filter.InStock => products[id].stock > 0]_vars

\* C33 happens: the last List had all four criteria set, with the category
\* written in another case than the stored one; it returned a product, and
\* left out one product for its category or price and one for its stock.
C33_Witness ==
    /\ last.op = "List"
    /\ last.args.Category = "appliances"
    /\ last.args.MinPrice > 0
    /\ last.args.MaxPrice > 0
    /\ last.args.InStock
    /\ \E product \in last.out : CategoryOf(product) = "Appliances"
    /\ \E id \in DOMAIN products :
          /\ products[id] \notin last.out
          /\ CategoryOf(products[id]) = "Appliances"
          /\ products[id].price > last.args.MaxPrice
    /\ \E id \in DOMAIN products :
          /\ products[id] \notin last.out
          /\ products[id].stock = 0

\* C36: a CreateOrder request, answered with success or with an error,
\* leaves every product (stock, price, name) and every user as they were;
\* its only effect on the stores is at most one order inserted into the
\* order repository, and none when the request is refused.
C36_CreateOrderOnlyInsertsOneOrder ==
    [][RequestStep("CreateOrder")
       => /\ products' = products
          /\ objs' = objs
          /\ rmap' = rmap
          /\ \A id \in DOMAIN orders :
                id \in DOMAIN orders' /\ orders'[id] = orders[id]
          /\ Cardinality(DOMAIN orders' \ DOMAIN orders) <= 1
          /\ resp'.code # StatusCreated => orders' = orders]_vars

\* C36 happens: an order was created while an earlier order, a registered
\* user and a product with a changed stock were in the stores.
C36_Witness ==
    /\ Answered("CreateOrder")
    /\ resp.code = StatusCreated
    /\ Cardinality(DOMAIN orders) = 2
    /\ DOMAIN rmap # {}
    /\ \E id \in DOMAIN products \cap CatalogueIds :
          products[id] # SeedProducts[id]

(***************************************************************************)
(* The product service through its routes: SpecProductService.  The        *)
(* requests carry the stocks and names the handlers let through.           *)
(***************************************************************************)
ServiceCreateProductRequests ==
    [badJSON : BOOLEAN, name : {"coffee maker", "Desk Lamp"},
     category : {"Appliances"}, price : {0, F64FromInt(4)}, stock : {-1, 1}]

ServiceUpdateProductRequests ==
    [id : CatalogueIds \cup NewProductIds \cup UnknownProductIds,
     badJSON : {FALSE},
     name : {<< >>, <<"Coffee Maker">>, <<"Espresso Machine">>},
     price : {<< >>}, stock : {<< >>, <<-1>>, <<0>>}]

ServiceCreateProduct == CreateProductFrom(ServiceCreateProductRequests)

ServiceUpdateProduct == UpdateProductFrom(ServiceUpdateProductRequests)

NextProductService ==
    \/ ServiceCreateProduct
    \/ ServiceUpdateProduct
    \/ UpdateStock
    \/ ProductDelete
    \/ GetProductByID
    \/ Deliver

SpecProductService == Init /\ [][NextProductService]_vars

\* C37 as claimed: in every reachable state of the product service no two
\* stored products have names that are equal ignoring case.
C37_Claimed_NamesUniqueIgnoringCase ==
    \A a \in DOMAIN products, b \in DOMAIN products :
        a # b => ~EqualFold(products[a].name, products[b].name)

\* C38 as claimed: in every reachable state of the product service every
\* stored product has stock >= 0.
C38_Claimed_StockNeverNegative ==
    \A id \in DOMAIN products : products[id].stock >= 0

\* The quantity of one product over the items of an order
RECURSIVE OrderedQuantity(_, _, _)
OrderedQuantity(items, productID, i) ==
    IF i > Len(items) THEN 0
    ELSE OrderedQuantity(items, productID, i + 1)
         + (IF items[i].product_id = productID THEN items[i].quantity ELSE 0)

\* C35 as claimed: in a persisted order the quantity of any one product,
\* summed over all items of that product, does not exceed the stock that
\* ValidateOrderItems saw in the lookup of each of those items.
C35_Claimed_ProductTotalWithinObservedStock ==
    (Answered("CreateOrder") /\ resp.code = StatusCreated)
    => \A i \in 1..Len(resp.data.items) :
          OrderedQuantity(resp.data.items, resp.data.items[i].product_id, 1)
              <= resp.calls.lookups[i].data.stock

(***************************************************************************)
(* Concurrent PATCH /orders/{id}/status requests: SpecStatus.  Each        *)
(* goroutine runs UpdateOrderStatus in the two critical sections the       *)
(* handler has: GetByID under the read lock, with the checks made on the   *)
(* copy it returned, and Update under the write lock.  last holds the last *)
(* write of Update: the stored status it found and the one it stored.      *)
(***************************************************************************)
StatusRequests ==
    [order_id : OrderIds, badJSON : {FALSE},
     status : {OrderStatusConfirmed, OrderStatusShipped, OrderStatusCancelled,
               "wrong"}]

StatusCreateOrder ==
    /\ CreateOrderFrom({[badJSON |-> FALSE, user_id |-> "u1",
                         items |-> <<[product_id |-> "p1", quantity |-> 1]>>]})
    /\ UNCHANGED <<trail, repoVars>>

\* UpdateOrderStatus up to the call of Update: the status is validated, the
\* order is read, the cancel guard and UpdateStatus work on the copy
StatusRead(p) ==
    /\ procs[p].pc = "idle"
    /\ \E req \in StatusRequests :
        LET g == RepoGetByID(orders, req.order_id)
            Refuse(code, text) ==
                procs' = [procs EXCEPT ![p] = [IdleProc EXCEPT !.code = code,
                              !.error = Msg(text)]]
        IN
        IF ~IsValidStatus(req.status)
        THEN Refuse(StatusBadRequest, "Invalid order status")
        ELSE IF g.err # NilErr THEN Refuse(StatusNotFound, "Order not found")
        ELSE IF req.status = OrderStatusCancelled /\ ~CanBeCancelled(g.order)
        THEN Refuse(StatusBadRequest,
                    "Order cannot be cancelled in current status")
        ELSE procs' = [procs EXCEPT ![p] = [IdleProc EXCEPT !.pc = "update",
                          !.req = req,
                          !.order = UpdateStatus(g.order, req.status, now)]]
    /\ UNCHANGED <<orders, issued, now, products, resp, mutex, trail, repoVars>>

\* UpdateOrderStatus from the call of Update to the response
StatusWrite(p) ==
    /\ procs[p].pc = "update"
    /\ LET order == procs[p].order
           u == RepoUpdate(orders, order)
       IN /\ orders' = u.store
          /\ procs' = [procs EXCEPT ![p] =
                 IF u.err # NilErr
                 THEN [IdleProc EXCEPT !.code = StatusInternalServerError,
                          !.error = Msg("Failed to update order status")]
                 ELSE [IdleProc EXCEPT !.code = StatusOK]]
          /\ last' = IF u.err # NilErr THEN last
                     ELSE [op |-> "Update", by |-> p, id |-> order.id,
                           from |-> orders[order.id].status,
                           to |-> order.status]
    /\ UNCHANGED <<issued, now, products, resp, mutex, trail, objs, arrs, rmap,
                   held>>

NextStatus ==
    \/ StatusCreateOrder
    \/ Deliver
    \/ \E p \in Procs : StatusRead(p) \/ StatusWrite(p)

SpecStatus == Init /\ [][NextStatus]_vars

\* C34 as claimed: whatever the interleaving of the requests, a write of
\* Update that stores the status cancelled finds the stored status pending
\* or confirmed.
C34_Claimed_CancelOnlyOverPendingOrConfirmed ==
    (last.op = "Update" /\ last.to = OrderStatusCancelled)
    => last.from \in {OrderStatusPending, OrderStatusConfirmed}

(***************************************************************************)
(* Concurrent PUT /products/{id} and PATCH /products/{id}/stock requests:  *)
(* SpecProductConc.  UpdateProduct runs in its two critical sections,      *)
(* GetByID under the read lock and Update under the write lock; UpdateStock*)
(* has one.  The PUT requests set the name or nothing, never the stock.     *)
(* trail holds, for each product, the quantity the last successful         *)
(* UpdateStock wrote.                                                      *)
(***************************************************************************)
PutRequests ==
    [id : CatalogueIds \cup UnknownProductIds, badJSON : BOOLEAN,
     name : {<< >>} \cup {<<n>> : n \in NewNames},
     price : {<< >>}, stock : {<< >>}]

\* UpdateProduct up to the call of Update: GetByID's copy with the fields
\* the request sets
PutGetByID(p) ==
    /\ procs[p].pc = "idle"
    /\ \E req \in PutRequests :
        LET g == ProductRepoGetByID(products, req.id)
            named == IF Len(req.name) = 1
                     THEN [g.product EXCEPT !.name = req.name[1]] ELSE g.product
            priced == IF Len(req.price) = 1
                      THEN [named EXCEPT !.price = req.price[1]] ELSE named
            existingProduct == IF Len(req.stock) = 1
                               THEN [priced EXCEPT !.stock = req.stock[1]]
                               ELSE priced
            Refuse(code, text) ==
                procs' = [procs EXCEPT ![p] = [IdleProc EXCEPT !.code = code,
                              !.error = Msg(text)]]
        IN
        IF g.err # NilErr THEN Refuse(StatusNotFound, "Product not found")
        ELSE IF req.badJSON THEN Refuse(StatusBadRequest, "Invalid JSON payload")
        ELSE procs' = [procs EXCEPT ![p] =
                          [pc |-> "update", existingProduct |-> existingProduct]]
    /\ UNCHANGED <<orders, issued, now, products, resp, mutex, trail, repoVars>>

\* UpdateProduct from the call of Update to the response
PutUpdate(p) ==
    /\ procs[p].pc = "update"
    /\ LET u == ProductRepoUpdate(products, procs[p].existingProduct) IN
          /\ products' = u.store
          /\ procs' = [procs EXCEPT ![p] =
                 IF u.err # NilErr
                 THEN [IdleProc EXCEPT !.code = StatusInternalServerError,
                          !.error = Msg("Failed to update product")]
                 ELSE [IdleProc EXCEPT !.code = StatusOK]]
    /\ UNCHANGED <<orders, issued, now, resp, mutex, trail, repoVars>>

\* UpdateStock, the handler with its one repository call
PatchUpdateStock(p) ==
    /\ procs[p].pc = "idle"
    /\ \E id \in CatalogueIds \cup UnknownProductIds, quantity \in StockQuantities :
        LET u == ProductRepoUpdateStock(products, id, quantity) IN
        /\ products' = u.store
        /\ procs' = [procs EXCEPT ![p] =
               IF u.err # NilErr
               THEN [IdleProc EXCEPT !.code = StatusBadRequest, !.error = u.err]
               ELSE [IdleProc EXCEPT !.code = StatusOK]]
        /\ trail' = IF u.err # NilErr THEN trail
                    ELSE (id :> quantity) @@ trail
    /\ UNCHANGED <<orders, issued, now, resp, mutex, repoVars>>

NextProductConc ==
    \E p \in Procs : PutGetByID(p) \/ PutUpdate(p) \/ PatchUpdateStock(p)

SpecProductConc == Init /\ [][NextProductConc]_vars

\* C39 as claimed: while the PUT requests set no stock, a product's stock is
\* the quantity the last successful UpdateStock wrote for it, whatever the
\* interleaving of the requests.
C39_Claimed_StockIsWhatUpdateStockWrote ==
    \A id \in DOMAIN trail :
        id \in DOMAIN products => products[id].stock = trail[id]

(***************************************************************************)
(* The three repositories' locks: SpecStore.  Each goroutine serves a      *)
(* request that calls up to MaxCalls repository methods, one after the     *)
(* other.  A method takes its repository's mutex (Lock or RLock), runs its *)
(* body to one of its return statements, and the deferred unlock runs as   *)
(* it returns.  held holds the locks taken and not yet released: the       *)
(* repository, the goroutine and the kind.  The maps' contents are left    *)
(* out: the body takes any of the return paths the method has.             *)
(***************************************************************************)
MaxCalls == 2

Method(repo, method, lock, errors) ==
    [repo |-> repo, method |-> method, lock |-> lock, errors |-> errors]

\* every method of the three repositories, the lock it takes first and the
\* errors its early returns give; GetByCategory takes no lock itself and
\* calls List, which takes the read lock
StoreMethods ==
    {Method("order", "Create", "Lock", {}),
     Method("order", "GetByID", "RLock", {"order not found"}),
     Method("order", "GetByUserID", "RLock", {}),
     Method("order", "Update", "Lock", {"order not found"}),
     Method("order", "List", "RLock", {}),
     Method("order", "Delete", "Lock", {"order not found"}),
     Method("product", "Create", "Lock",
            {"product with this name already exists"}),
     Method("product", "GetByID", "RLock", {"product not found"}),
     Method("product", "Update", "Lock", {"product not found"}),
     Method("product", "Delete", "Lock", {"product not found"}),
     Method("product", "List", "RLock", {}),
     Method("product", "GetByCategory", "RLock", {}),
     Method("product", "UpdateStock", "Lock",
            {"product not found", "stock quantity cannot be negative"}),
     Method("user", "Create", "Lock", {"user with this email already exists"}),
     Method("user", "GetByID", "RLock", {"user not found"}),
     Method("user", "GetByEmail", "RLock", {"user not found"}),
     Method("user", "Update", "Lock", {"user not found"}),
     Method("user", "Delete", "Lock", {"user not found"}),
     Method("user", "List", "RLock", {})}

Holding(repo, p, lock) == [repo |-> repo, by |-> p, lock |-> lock]

\* Faulty variant of DeferredUnlock: the unlock is written before the final
\* return only, and the early returns leave the mutex locked.
UnlockBeforeFinalReturn(h, p, err) ==
    IF err = NilErr THEN {x \in h : x.by # p} ELSE h

\* defer r.mutex.Unlock() / defer r.mutex.RUnlock(): runs as the method
\* returns, whatever it returns
DeferredUnlock(h, p, err) ==
    {x \in h : x.by # p}

\* a goroutine calls a method
StoreCall(p) ==
    /\ procs[p].pc = "idle"
    /\ procs[p].i < MaxCalls
    /\ \E call \in StoreMethods :
        procs' = [procs EXCEPT ![p].pc = "acquire", ![p].req = call,
                               ![p].i = @ + 1, ![p].error = NilErr]
    /\ UNCHANGED <<orders, issued, now, products, resp, mutex, trail, repoVars>>

\* r.mutex.Lock() returns when no goroutine holds the repository's mutex,
\* r.mutex.RLock() when no goroutine holds it for writing
StoreAcquire(p) ==
    /\ procs[p].pc = "acquire"
    /\ LET call == procs[p].req
           others == {x \in held : x.repo = call.repo}
       IN /\ IF call.lock = "Lock" THEN others = {}
             ELSE \A x \in others : x.lock = "RLock"
          /\ held' = held \cup {Holding(call.repo, p, call.lock)}
    /\ procs' = [procs EXCEPT ![p].pc = "body"]
    /\ UNCHANGED <<orders, issued, now, products, resp, mutex, trail, objs, arrs,
                   rmap, last>>

\* the body runs to one of the method's return statements
StoreBody(p) ==
    /\ procs[p].pc = "body"
    /\ \E err \in {NilErr} \cup {Msg(e) : e \in procs[p].req.errors} :
        procs' = [procs EXCEPT ![p].pc = "release", ![p].error = err]
    /\ UNCHANGED <<orders, issued, now, products, resp, mutex, trail, repoVars>>

\* the method returns: the deferred call runs
StoreRelease(p) ==
    /\ procs[p].pc = "release"
    /\ held' = DeferredUnlock(held, p, procs[p].error)
    /\ procs' = [procs EXCEPT ![p].pc = "idle"]
    /\ UNCHANGED <<orders, issued, now, products, resp, mutex, trail, objs, arrs,
                   rmap, last>>

NextStore ==
    \E p \in Procs :
        StoreCall(p) \/ StoreAcquire(p) \/ StoreBody(p) \/ StoreRelease(p)

SpecStore == Init /\ [][NextStore]_vars

\* The scheduler runs a goroutine that can run: a method that can take its
\* lock takes it, a body runs on, a return returns.  Nothing makes a request
\* call the repository.
SpecStoreFair ==
    /\ SpecStore
    /\ \A p \in Procs :
        /\ WF_vars(StoreAcquire(p))
        /\ WF_vars(StoreBody(p))
        /\ WF_vars(StoreRelease(p))

\* C40: the repositories are free of deadlock.  A goroutine outside a
\* method holds no lock (every return path, error returns included, has
\* released it), a goroutine about to take a lock holds none, and under weak
\* fairness every call of every goroutine returns.
C40_EveryCallReturnsWithItsLockReleased ==
    /\ [](\A p \in Procs :
            procs[p].pc \in {"idle", "acquire"} => \A x \in held : x.by # p)
    /\ \A p \in Procs : (procs[p].pc = "acquire") ~> (procs[p].pc = "idle")

\* C40 happens: one goroutine has returned from all its calls, the last by
\* an error return, and holds no lock; the other is inside a write of the
\* same repository.
C40_Witness ==
    \E p \in Procs, q \in Procs :
        /\ procs[p].pc = "idle"
        /\ procs[p].i = MaxCalls
        /\ procs[p].error # NilErr
        /\ procs[q].pc = "release"
        /\ procs[q].req.lock = "Lock"
        /\ procs[q].req.repo = procs[p].req.repo
        /\ held = {Holding(procs[q].req.repo, q, "Lock")}

====
